---- MODULE Spec2Model ----
(***************************************************************************)
(* Verification model of the lead-generation toolkit (lead-gen-system).    *)
(* Each subsystem of the toolkit is a standalone script; each gets its own *)
(* group of variables and its own specification:                           *)
(*   SpecWeb           analysis/website_checker.py (analyze_websites)      *)
(*   SpecShopify       scrapers/shopify_lead_scorer.py (score_leads)       *)
(*   SpecYCScore       yc_scraper.py (score_company), compute_priority     *)
(*   SpecYCPool        yc_scraper.py (run, the detail-page thread pool)    *)
(*   SpecJD, SpecJDFair  justdial_enriched_scraper.py (run)                *)
(*   SpecMergeAll      merge_all_leads.py (merge_and_deduplicate)          *)
(*   SpecMergeDatasets merge_datasets.py (load_and_map_files)              *)
(*   SpecSheets        integration/sheets_writer.py (write_leads_to_sheets)*)
(*   SpecMain          scripts/python/main.py (main), with its callees     *)
(*   SpecYCFetch       yc_scraper.py (fetch_companies, _batch_matches)     *)
(*   SpecYCRun         yc_scraper.py (run: filter, enrich, score, rank)    *)
(*   SpecReddit        scrapers/reddit_scraper.py (fetch_posts)            *)
(*   SpecBrandNetwork  brand_network_crawler.py (crawl_brand_network)      *)
(***************************************************************************)
EXTENDS Integers, Sequences, FiniteSets, TLC

VARIABLES
    \* ---- analysis/website_checker.py : analyze_websites ----
    aw_pc,            \* position in analyze_websites: "off" | "loop" | "done" | "raised"
    businesses,       \* the input list; each element is one (mutable) business object
    max_concurrent,   \* the max_concurrent argument
    aw_i,             \* index (1-based) of the next element of businesses[:max_concurrent]
    results,          \* the results list: references (indices) to business objects
    processed,        \* the processed counter
    stats,            \* StatusTracker.stats (the counters analyze_websites touches)
    \* ---- scrapers/shopify_lead_scorer.py : ShopifyLeadScorer.score_leads ----
    sl_pc,            \* "off" | "metadata" | "scored"
    sl_metadata,      \* the metadata dict handed to score_leads
    sl_lead,          \* the dict score_leads returns
    \* ---- scrapers/yc_scraper.py : YCStartupScraper.score_company ----
    sc_pc,            \* "off" | "metadata" | "scored" | "prioritized"
    sc_metadata,      \* the company metadata dict
    sc_score,         \* what score_company returned
    sc_priority,      \* what compute_priority made of the scored row
    \* ---- scrapers/yc_scraper.py : YCStartupScraper.run, detail enrichment ----
    yc_pc,            \* "off" | "submit" | "as_completed" | "score"
    yc_n,             \* len(urls_to_fetch)
    yc_submitted,     \* how many futures executor.submit has created so far
    yc_future,        \* state of each future: "pending" | "running" | "finished" | "merged"
    \* ---- scrapers/justdial_enriched_scraper.py : JustDialEnrichedScraper.run ----
    jd_pc,            \* "off" | "fetch" | "while" | "items" | "after" | "done"
    jd_target,        \* the target argument
    jd_results,       \* self.results
    jd_seen_names,    \* seen_names
    jd_attempts,      \* attempts
    jd_batch,         \* how many items of the current batch are still to be visited
    jd_start_seen,    \* start_seen
    jd_list_meta,     \* list_meta of the item merged last (a dict, as a function)
    jd_detail_meta,   \* detail_meta of the item merged last
    jd_raised,        \* TRUE when run ended with an exception instead of a return
    \* ---- scripts/python/utils/merge_all_leads.py : merge_and_deduplicate ----
    mal_pc,           \* "off" | "loaded" | "merged"
    business_df,      \* the business frame: a sequence of rows
    influencer_df,    \* the influencer frame
    unified_df,       \* the frame merge_and_deduplicate returned
    \* ---- utils/merge_datasets.py : load_and_map_files ----
    lmf_pc,           \* "off" | "frames" | "website" | "phone" | "name_city" | "done"
    frames,           \* the mapped frames, in loading order
    merged,           \* the frame `merged`
    \* ---- integration/sheets_writer.py : write_leads_to_sheets ----
    wl_pc,            \* "off" | "authenticate" | "get_sheet" | "headers" | "append" | "returned"
    wl_leads,         \* the leads argument: iterable or not, and for each lead whether it is a dict
    wl_sheet_id,      \* whether a sheet_id was given
    wl_result,        \* the result dict
    wl_raised,        \* an exception left write_leads_to_sheets
    wl_client,        \* `client`: "unset", or what authenticate_sheets returned
    sheet_created,    \* spreadsheets created in the account by this call
    sheet_headers,    \* the header row was written by this call
    sheet_rows,       \* lead rows appended to a worksheet by this call
    \* ---- scripts/python/main.py : main ----
    main_pc,          \* "off" | "load" | "analyze" | "backup" | "sheets" | "report" | "status"
                      \* | "done" | "no_data" | "raised"
    input_file,       \* what the input JSON file holds
    batch_size,       \* the batch_size argument
    main_steps,       \* the steps main has carried out, in order
    qualified_leads,  \* the qualified leads (indices of business objects)
    main_results,     \* main's `results` dict
    report,           \* the 'Leads Added to Sheets' figure of the report, once generated
    leads_in_sheet,   \* status.stats['leads_in_sheet'] of main's StatusTracker
    \* ---- scrapers/yc_scraper.py : YCStartupScraper.fetch_companies ----
    fc_pc,            \* "off" | "fetch" | "filter" | "returned"
    fc_companies,     \* the companies found on the page, each by its 'batch' value
    batch_filter,     \* the batch_filter argument (<<>> for None or an empty list)
    fc_returned,      \* what fetch_companies returned
    fc_except,         \* the except branch of fetch_companies ran
    \* ---- scrapers/yc_scraper.py : YCStartupScraper.run ----
    run_pc,           \* "off" | "fetch" | "enrich" | "rank" | "returned"
    run_companies,    \* `companies`: as fetched, then filtered, then scored and sorted
    exclude_existing, \* self.exclude_existing (with existing names on disk)
    max_results,      \* the max_results argument
    run_results,       \* self.results, the list run returns
    \* ---- scrapers/reddit_scraper.py : fetch_posts ----
    fp_pc,            \* "off" | "assert" | "request" | "retry" | "json" | "done"
    fp_sort,          \* the sort argument
    fp_delay,         \* the delay argument
    fp_requests,      \* requests.get calls issued by this call
    fp_statuses,      \* the status codes of the responses received, in order
    fp_resp,          \* `resp`, the response received last
    fp_outcome,        \* how the call ended: the posts returned or the exception raised
    \* ---- influencer_analysis/brand_network_crawler.py : crawl_brand_network ----
    bn_pc,            \* "off" | "while" | "returned"
    seed_brands,      \* the seed_brands argument
    max_depth,        \* the max_depth argument
    min_followers_threshold,  \* the min_followers_threshold argument
    to_crawl,         \* the queue of (username, depth) pairs
    crawled,          \* the set `crawled`
    discovered_brands,  \* self.discovered_brands: username -> profile info
    brand_connections,  \* self.brand_connections
    bn_analysed       \* history: the profile infos obtained, with depth and whether posts were scanned

webVars == <<aw_pc, businesses, max_concurrent, aw_i, results, processed, stats>>
shopVars == <<sl_pc, sl_metadata, sl_lead>>
scoreVars == <<sc_pc, sc_metadata, sc_score, sc_priority>>
poolVars == <<yc_pc, yc_n, yc_submitted, yc_future>>
jdVars == <<jd_pc, jd_target, jd_results, jd_seen_names, jd_attempts, jd_batch,
            jd_start_seen, jd_list_meta, jd_detail_meta, jd_raised>>
malVars == <<mal_pc, business_df, influencer_df, unified_df>>
lmfVars == <<lmf_pc, frames, merged>>
mainVars == <<main_pc, input_file, batch_size, main_steps, qualified_leads,
              main_results, report, leads_in_sheet>>
sheetVars == <<wl_pc, wl_leads, wl_sheet_id, wl_result, wl_raised, wl_client,
               sheet_created, sheet_headers, sheet_rows>>
fetchVars == <<fc_pc, fc_companies, batch_filter, fc_returned, fc_except>>
runVars == <<run_pc, run_companies, exclude_existing, max_results, run_results>>
redditVars == <<fp_pc, fp_sort, fp_delay, fp_requests, fp_statuses, fp_resp,
                fp_outcome>>
brandVars == <<bn_pc, seed_brands, max_depth, min_followers_threshold, to_crawl,
               crawled, discovered_brands, brand_connections, bn_analysed>>

vars == <<webVars, shopVars, scoreVars, poolVars, jdVars, malVars, lmfVars,
          mainVars, sheetVars, fetchVars, runVars, redditVars, brandVars>>

\* Each script runs on its own: the variables the other scripts own.
notWeb == <<shopVars, scoreVars, poolVars, jdVars, malVars, lmfVars,
            mainVars, sheetVars, fetchVars, runVars, redditVars, brandVars>>
notShop == <<webVars, scoreVars, poolVars, jdVars, malVars, lmfVars,
             mainVars, sheetVars, fetchVars, runVars, redditVars, brandVars>>
notScore == <<webVars, shopVars, poolVars, jdVars, malVars, lmfVars,
              mainVars, sheetVars, fetchVars, runVars, redditVars, brandVars>>
notPool == <<webVars, shopVars, scoreVars, jdVars, malVars, lmfVars,
             mainVars, sheetVars, fetchVars, runVars, redditVars, brandVars>>
notJd == <<webVars, shopVars, scoreVars, poolVars, malVars, lmfVars,
           mainVars, sheetVars, fetchVars, runVars, redditVars, brandVars>>
notMal == <<webVars, shopVars, scoreVars, poolVars, jdVars, lmfVars,
            mainVars, sheetVars, fetchVars, runVars, redditVars, brandVars>>
notLmf == <<webVars, shopVars, scoreVars, poolVars, jdVars, malVars,
            mainVars, sheetVars, fetchVars, runVars, redditVars, brandVars>>
notMain == <<webVars, shopVars, scoreVars, poolVars, jdVars, malVars,
             lmfVars, sheetVars, fetchVars, runVars, redditVars, brandVars>>
mainOthers == <<shopVars, scoreVars, poolVars, jdVars, malVars, lmfVars,
                fetchVars, runVars, redditVars, brandVars>>
notSheet == <<webVars, shopVars, scoreVars, poolVars, jdVars, malVars,
              lmfVars, mainVars, fetchVars, runVars, redditVars, brandVars>>
notFetch == <<webVars, shopVars, scoreVars, poolVars, jdVars, malVars,
              lmfVars, mainVars, sheetVars, runVars, redditVars, brandVars>>
notRun == <<webVars, shopVars, scoreVars, poolVars, jdVars, malVars, lmfVars,
            mainVars, sheetVars, fetchVars, redditVars, brandVars>>
notReddit == <<webVars, shopVars, scoreVars, poolVars, jdVars, malVars,
               lmfVars, mainVars, sheetVars, fetchVars, runVars, brandVars>>
notBrand == <<webVars, shopVars, scoreVars, poolVars, jdVars, malVars,
              lmfVars, mainVars, sheetVars, fetchVars, runVars, redditVars>>

\* ------------------------------------------------------------------------
\* Bounds of the model
\* ------------------------------------------------------------------------
MaxBiz == 2          \* longest businesses list explored
MaxCompanies == 11   \* most companies with a detail_url handed to the thread pool
MaxTarget == 2       \* largest target given to JustDialEnrichedScraper.run
MaxBatch == 2        \* most listing elements one page scan returns
MaxFrame == 2        \* most rows of a frame given to merge_and_deduplicate
MaxRows == 2         \* most rows load_and_map_files concatenates
MaxLeads == 2        \* most leads handed to write_leads_to_sheets
MaxFetched == 2      \* most companies fetch_companies finds on the page
MaxFilters == 2      \* longest batch_filter list
MaxListed == 3       \* most companies fetch_companies hands to run
MaxResults == 3      \* largest max_results given to run
MaxChildren == 2     \* most children of a Reddit listing
MaxSeeds == 2        \* longest seed_brands list
MaxDepth == 1        \* largest max_depth given to crawl_brand_network
MaxMentions == 2     \* most distinct mentions in the posts of one profile

\* ------------------------------------------------------------------------
\* Small helpers
\* ------------------------------------------------------------------------
Min(a, b) == IF a < b THEN a ELSE b

B2N(b) == IF b THEN 1 ELSE 0

\* ------------------------------------------------------------------------
\* pandas, as far as the merge scripts use it.  A frame is a sequence of rows
\* (records); NaN/None is the value NULL.
\* ------------------------------------------------------------------------
NULL == "<NaN>"

notna(v) == v # NULL

\* The strings of the model in their sort order (by code point).
Collation == <<"", "111", "Acme", "Pune", "a.com", "b.com", "business",
               "google_maps", "indiamart", "influencer_brand", "instagram", "justdial">>

Rank(v) == CHOOSE i \in 1..Len(Collation) : Collation[i] = v

\* The place of a value in an ascending sort with na_position='last'
Place(v) == IF v = NULL THEN Len(Collation) + 1 ELSE Rank(v)

\* Sort keys are tuples of places, compared column by column.
KeyLess(k1, k2) ==
    \E c \in 1..Len(k1) : k1[c] < k2[c] /\ \A d \in 1..(c - 1) : k1[d] = k2[d]

\* DataFrame.sort_values on several columns, as a stable sort: by[i] is the
\* sort key of row i, and rows with equal keys keep their order.
StableSort(s, by) ==
    LET n == Len(s)
        pos(i) == 1 + Cardinality({ j \in 1..n :
                          KeyLess(by[j], by[i]) \/ (by[j] = by[i] /\ j < i) })
    IN [k \in 1..n |-> s[CHOOSE i \in 1..n : pos(i) = k]]

\* The rows at the indices I, in their order.
Rows(s, I) ==
    [k \in 1..Cardinality(I) |->
        s[CHOOSE i \in I : Cardinality({ j \in I : j < i }) = k - 1]]

\* df.loc[mask], mask a boolean column
Where(s, mask) == Rows(s, { i \in 1..Len(s) : mask[i] })

\* df.drop_duplicates(subset=..., keep='first'), subset[i] the key of row i
drop_duplicates(s, subset) ==
    Rows(s, { i \in 1..Len(s) : \A j \in 1..(i - 1) : subset[j] # subset[i] })

\* pd.concat([a, b], ignore_index=True)
concat(a, b) == a \o b

\* ========================================================================
\* analysis/website_checker.py
\* ========================================================================

SCORE_WEIGHTS == [exists |-> 40, has_ssl |-> 30, fast_load |-> 20, valid_domain |-> 10]

\* A domain as check_domain_validity sees it: its length, whether it holds a
\* dot, and whether it holds one of the characters '@', ' ', '<', '>'.
Domains ==
    { [len |-> 11, dot |-> TRUE,  susp |-> FALSE],      \* "example.com"
      [len |-> 3,  dot |-> TRUE,  susp |-> FALSE],      \* "a.b"
      [len |-> 7,  dot |-> FALSE, susp |-> FALSE],      \* "invalid"
      [len |-> 9,  dot |-> TRUE,  susp |-> TRUE ] }     \* "a@b.co.in"

NoDomain == [len |-> 0, dot |-> FALSE, susp |-> FALSE]

\* The values a business may carry under 'website':
\*   "none"   None, '' or a missing key (falsy)
\*   "skip"   'N/A', 'n/a', 'None', '-' or only white space (after strip)
\*   "nonstr" a truthy value that is no string (a number, a list)
\*   "str"    a string with an optional scheme and a domain
UrlInputs ==
    { [kind |-> k, scheme |-> "none", domain |-> NoDomain] : k \in {"none", "skip", "nonstr"} }
    \cup
    { [kind |-> "str", scheme |-> s, domain |-> d] : s \in {"https", "http", "none"}, d \in Domains }

\* What requests.get does for a URL: an exception, or a status code with a
\* load time (in seconds).
NetOutcomes ==
    { [raises |-> TRUE, ok |-> FALSE, load_time |-> 0] }
    \cup
    { [raises |-> FALSE, ok |-> o, load_time |-> t] : o \in BOOLEAN, t \in {1, 3, 4} }

\* normalize_url: None for an unusable value, else the URL with http:// put in
\* front when it has no scheme.  A truthy non-string has no strip(): raises.
normalize_url(url) ==
    CASE url.kind = "none"   -> [raised |-> FALSE, none |-> TRUE,  url |-> url]
      [] url.kind = "nonstr" -> [raised |-> TRUE,  none |-> FALSE, url |-> url]
      [] url.kind = "skip"   -> [raised |-> FALSE, none |-> TRUE,  url |-> url]
      [] OTHER               -> [raised |-> FALSE, none |-> FALSE,
                                 url |-> IF url.scheme = "none"
                                         THEN [url EXCEPT !.scheme = "http"]
                                         ELSE url]

\* check_website_exists: (success, load_time); (False, 0) on any exception.
check_website_exists(net) ==
    IF net.raises THEN [success |-> FALSE, load_time |-> 0]
    ELSE [success |-> net.ok, load_time |-> net.load_time]

check_ssl_certificate(url) == url.scheme = "https"

check_domain_validity(url) ==
    LET domain == url.domain IN
    IF domain.len < 4 THEN FALSE
    ELSE IF ~domain.dot THEN FALSE
    ELSE IF domain.susp THEN FALSE
    ELSE TRUE

\* The result dict as initialised at the top of calculate_website_score.
InitialResult(url) ==
    [shape |-> "full", url |-> url, score |-> 0, exists |-> FALSE, has_ssl |-> FALSE,
     fast_load |-> FALSE, valid_domain |-> FALSE, load_time |-> 0, error |-> "None"]

\* A plausible slip: the SSL flag is recorded for every URL, but its weight is
\* still added only for a website that exists.
calculate_website_score_SslOutside(url, net) ==
    LET n == normalize_url(url) IN
    IF n.raised THEN [raised |-> TRUE, result |-> InitialResult(url)]
    ELSE IF n.none
    THEN [raised |-> FALSE, result |-> [InitialResult(url) EXCEPT !.error = "Invalid or empty URL"]]
    ELSE
      LET r0 == [InitialResult(url) EXCEPT !.url = n.url]
          vd == check_domain_validity(n.url)
          r1 == [r0 EXCEPT !.valid_domain = vd,
                           !.score = IF vd THEN @ + SCORE_WEIGHTS.valid_domain ELSE @]
          ex == check_website_exists(net)
          r2 == [r1 EXCEPT !.exists = ex.success, !.load_time = ex.load_time,
                           !.has_ssl = check_ssl_certificate(n.url)]
          r3 == IF ex.success
                THEN [r2 EXCEPT !.score = @ + SCORE_WEIGHTS.exists
                                          + (IF ex.load_time < 3 THEN SCORE_WEIGHTS.fast_load ELSE 0)
                                          + (IF r2.has_ssl THEN SCORE_WEIGHTS.has_ssl ELSE 0),
                                !.fast_load = ex.load_time < 3]
                ELSE r2
      IN [raised |-> FALSE, result |-> r3]

\* calculate_website_score(url) with the network's answer `net`.  `raised` is
\* the AttributeError of url.strip() on a non-string, which happens before the
\* function's own try block.
calculate_website_score(url, net) ==
    LET n == normalize_url(url) IN
    IF n.raised THEN [raised |-> TRUE, result |-> InitialResult(url)]
    ELSE IF n.none
    THEN [raised |-> FALSE, result |-> [InitialResult(url) EXCEPT !.error = "Invalid or empty URL"]]
    ELSE
      LET r0 == [InitialResult(url) EXCEPT !.url = n.url]
          \* Check domain validity
          vd == check_domain_validity(n.url)
          r1 == [r0 EXCEPT !.valid_domain = vd,
                           !.score = IF vd THEN @ + SCORE_WEIGHTS.valid_domain ELSE @]
          \* Check if website exists and loads
          ex == check_website_exists(net)
          r2 == [r1 EXCEPT !.exists = ex.success, !.load_time = ex.load_time]
          r3 == IF ex.success
                THEN LET a == [r2 EXCEPT !.score = @ + SCORE_WEIGHTS.exists]
                         \* Check load speed
                         b == IF ex.load_time < 3
                              THEN [a EXCEPT !.fast_load = TRUE,
                                             !.score = @ + SCORE_WEIGHTS.fast_load]
                              ELSE a
                         \* Check SSL
                         ssl == check_ssl_certificate(n.url)
                         c == [b EXCEPT !.has_ssl = ssl,
                                        !.score = IF ssl THEN @ + SCORE_WEIGHTS.has_ssl ELSE @]
                     IN c
                ELSE r2
      IN [raised |-> FALSE, result |-> r3]

\* ---- StatusTracker (utils/status_tracker.py) ----
\* A counter of StatusTracker.stats: load() keeps the raw string of the status
\* file when int() fails on it, so a counter is an int or a string.
Counter(isStr, n) == [str |-> isStr, n |-> n]

\* StatusTracker.increment: stats[key] += 1; a string counter raises TypeError.
increment(st, key) ==
    IF st[key].str THEN [raised |-> TRUE, stats |-> st]
    ELSE [raised |-> FALSE, stats |-> [st EXCEPT ![key].n = @ + 1]]

\* ---- analyze_websites ----
\* A business object: a dict (with its 'website' value) or some other JSON
\* value (a string, a number, null).  website_analysis / score are the keys
\* analyze_websites writes into the dict.
NoAnalysis == [shape |-> "absent"]
ErrorAnalysis == [shape |-> "error", score |-> 0]

BusinessInputs ==
    { [is_dict |-> TRUE, website |-> u, website_analysis |-> NoAnalysis,
       has_score |-> FALSE, score |-> 0, failed |-> FALSE] : u \in UrlInputs }
    \cup
    { [is_dict |-> FALSE, website |-> CHOOSE u \in UrlInputs : u.kind = "none",
       website_analysis |-> NoAnalysis, has_score |-> FALSE, score |-> 0, failed |-> FALSE] }

\* businesses[:max_concurrent] for max_concurrent >= 0
Slice == SubSeq(businesses, 1, Min(max_concurrent, Len(businesses)))

\* The except branch of the loop body, for the business at index i: it writes
\* the zero-score analysis into the business, appends it and counts an error.
\* Item assignment on a non-dict raises TypeError out of analyze_websites.
AW_ExceptBranch(i, res, st) ==
    IF ~businesses[i].is_dict
    THEN /\ aw_pc' = "raised"
         /\ businesses' = [businesses EXCEPT ![i].failed = TRUE]
         /\ results' = res
         /\ stats' = st
         /\ UNCHANGED <<aw_i, processed>>
    ELSE LET inc == increment(st, "errors") IN
         /\ businesses' = [businesses EXCEPT ![i].website_analysis = ErrorAnalysis,
                                             ![i].has_score = TRUE,
                                             ![i].score = 0,
                                             ![i].failed = TRUE]
         /\ results' = Append(res, i)
         /\ stats' = inc.stats
         /\ IF inc.raised
            THEN aw_pc' = "raised" /\ UNCHANGED <<aw_i, processed>>
            ELSE aw_pc' = "loop" /\ aw_i' = aw_i + 1 /\ UNCHANGED processed

\* One iteration of `for business in businesses[:max_concurrent]`.
AW_Iter ==
    /\ aw_pc = "loop"
    /\ aw_i <= Len(Slice)
    /\ UNCHANGED notWeb
    /\ LET i == aw_i
           business == businesses[i]
       IN IF ~business.is_dict
          THEN \* business.get raises AttributeError
               /\ AW_ExceptBranch(i, results, stats)
               /\ UNCHANGED max_concurrent
          ELSE \E net \in NetOutcomes :
               LET analysis == calculate_website_score(business.website, net) IN
               IF analysis.raised
               THEN /\ AW_ExceptBranch(i, results, stats)
                    /\ UNCHANGED max_concurrent
               ELSE LET inc == increment(stats, "websites_checked") IN
                    IF inc.raised
                    THEN \* the business is already in results and is appended again
                         /\ AW_ExceptBranch(i, Append(results, i), stats)
                         /\ UNCHANGED max_concurrent
                    ELSE /\ businesses' = [businesses EXCEPT
                                             ![i].website_analysis = analysis.result,
                                             ![i].has_score = TRUE,
                                             ![i].score = analysis.result.score]
                         /\ results' = Append(results, i)
                         /\ processed' = processed + 1
                         /\ stats' = inc.stats
                         /\ aw_i' = aw_i + 1
                         /\ UNCHANGED <<aw_pc, max_concurrent>>

\* After the loop: status.save() and return results.
AW_Return ==
    /\ aw_pc = "loop"
    /\ aw_i > Len(Slice)
    /\ aw_pc' = "done"
    /\ UNCHANGED <<businesses, max_concurrent, aw_i, results, processed, stats>>
    /\ UNCHANGED notWeb

RECURSIVE SeqsUpTo(_, _)
SeqsUpTo(S, n) ==
    IF n = 0 THEN { <<>> }
    ELSE LET shorter == SeqsUpTo(S, n - 1) IN
         shorter \cup { Append(s, x) : s \in { t \in shorter : Len(t) = n - 1 }, x \in S }

WebOff ==
    /\ aw_pc = "off"
    /\ businesses = <<>>
    /\ max_concurrent = 0
    /\ aw_i = 1
    /\ results = <<>>
    /\ processed = 0
    /\ stats = [websites_checked |-> Counter(FALSE, 0), errors |-> Counter(FALSE, 0)]

WebInit ==
    /\ aw_pc = "loop"
    /\ businesses \in SeqsUpTo(BusinessInputs, MaxBiz)
    /\ max_concurrent \in 0..(MaxBiz + 1)
    /\ aw_i = 1
    /\ results = <<>>
    /\ processed = 0
    /\ stats \in { [websites_checked |-> Counter(s, 0), errors |-> Counter(FALSE, 0)] : s \in BOOLEAN }

\* C2: whenever calculate_website_score returns, the score of the result is
\* 40*exists + 30*has_ssl + 20*fast_load + 10*valid_domain over the flags of
\* that same result, and so lies in 0..100.
C2_ScoreIsWeightedSum ==
    \A i \in DOMAIN businesses :
        LET r == businesses[i].website_analysis IN
        r.shape = "full" =>
            /\ r.score = 40 * B2N(r.exists) + 30 * B2N(r.has_ssl)
                         + 20 * B2N(r.fast_load) + 10 * B2N(r.valid_domain)
            /\ r.score \in 0..100

\* A website that loads slowly over https with a valid domain was scored (80),
\* next to one that does not load at all.
C2_Witness ==
    \E i \in DOMAIN businesses :
        LET r == businesses[i].website_analysis IN
        /\ r.shape = "full"
        /\ r.exists /\ r.has_ssl /\ ~r.fast_load /\ r.valid_domain
        /\ r.score = 80

\* C10: analyze_websites returns exactly one entry for each of the first
\* max_concurrent businesses, in input order, each carrying website_analysis
\* and score; a business whose analysis failed is returned with score 0, and
\* the failure never stops the loop (the call returns, it does not raise).
C10_OneEntryPerBusiness ==
    aw_pc \in {"done", "raised"} =>
        /\ aw_pc = "done"
        /\ Len(results) = Len(Slice)
        /\ \A k \in 1..Len(results) :
              /\ results[k] = k
              /\ businesses[k].website_analysis.shape # "absent"
              /\ businesses[k].has_score
              /\ (businesses[k].failed => businesses[k].score = 0)

\* ========================================================================
\* scrapers/shopify_lead_scorer.py
\* ========================================================================

\* Word counts of an About/Story page around the 150-word threshold.
WordCounts == {0, 51, 149, 150, 400}

\* The keys of a metadata dict that score_leads reads; social_links is
\* represented by its length.
ShopMetadata ==
    [is_myshopify_domain : BOOLEAN,
     has_about_page : BOOLEAN, about_page_word_count : WordCounts,
     has_story_page : BOOLEAN, story_page_word_count : WordCounts,
     is_default_theme : BOOLEAN,
     social_links : 0..4]

NoShopMetadata ==
    [is_myshopify_domain |-> FALSE, has_about_page |-> FALSE, about_page_word_count |-> 0,
     has_story_page |-> FALSE, story_page_word_count |-> 0, is_default_theme |-> FALSE,
     social_links |-> 0]

NoLead == [lead_score |-> 0, lead_quality |-> "none", weaknesses |-> <<>>, weakness_count |-> 0]

lead_quality(score) ==
    IF score >= 8 THEN "hot"
    ELSE IF score >= 5 THEN "warm"
    ELSE IF score >= 3 THEN "cold"
    ELSE "poor"

\* A plausible slip: the short-About test uses `or` instead of `and`.
score_leads_ShortEither(metadata) ==
    LET a == IF metadata.is_myshopify_domain THEN 3 ELSE 0
        b == IF ~metadata.has_about_page /\ ~metadata.has_story_page THEN 3
             ELSE IF metadata.about_page_word_count < 150 \/ metadata.story_page_word_count < 150
                  THEN 2 ELSE 0
        c == IF metadata.is_default_theme THEN 2 ELSE 0
        d == IF metadata.social_links = 0 THEN 3
             ELSE IF metadata.social_links <= 2 THEN 2 ELSE 0
        score == a + b + c + d
    IN [lead_score |-> score, lead_quality |-> lead_quality(score),
        weaknesses |-> <<>>, weakness_count |-> 0]

\* score_leads: the score and the weaknesses list grow statement by statement.
score_leads(metadata) ==
    LET s0 == [score |-> 0, weaknesses |-> <<>>]
        \* Domain quality
        s1 == IF metadata.is_myshopify_domain
              THEN [score |-> s0.score + 3, weaknesses |-> Append(s0.weaknesses, "myshopify")]
              ELSE s0
        \* Content quality
        s2 == IF ~metadata.has_about_page /\ ~metadata.has_story_page
              THEN [score |-> s1.score + 3, weaknesses |-> Append(s1.weaknesses, "no_about")]
              ELSE IF metadata.about_page_word_count < 150 /\ metadata.story_page_word_count < 150
              THEN [score |-> s1.score + 2, weaknesses |-> Append(s1.weaknesses, "weak_about")]
              ELSE s1
        \* Design quality
        s3 == IF metadata.is_default_theme
              THEN [score |-> s2.score + 2, weaknesses |-> Append(s2.weaknesses, "default_theme")]
              ELSE s2
        \* Marketing presence
        social_count == metadata.social_links
        s4 == IF social_count = 0
              THEN [score |-> s3.score + 3, weaknesses |-> Append(s3.weaknesses, "no_social")]
              ELSE IF social_count <= 2
              THEN [score |-> s3.score + 2, weaknesses |-> Append(s3.weaknesses, "weak_social")]
              ELSE s3
    IN [lead_score |-> s4.score, lead_quality |-> lead_quality(s4.score),
        weaknesses |-> s4.weaknesses, weakness_count |-> Len(s4.weaknesses)]

\* run_pipeline, per store: lead_data = self.score_leads(metadata)
SL_Score ==
    /\ sl_pc = "metadata"
    /\ sl_lead' = score_leads(sl_metadata)
    /\ sl_pc' = "scored"
    /\ UNCHANGED sl_metadata
    /\ UNCHANGED notShop

ShopOff == sl_pc = "off" /\ sl_metadata = NoShopMetadata /\ sl_lead = NoLead

ShopInit == sl_pc = "metadata" /\ sl_metadata \in ShopMetadata /\ sl_lead = NoLead

\* C3: lead_score = 3 for a myshopify.com domain, plus (3 with neither an
\* About nor a Story page, else 2 when both word counts are below 150, else 0),
\* plus 2 for a default theme, plus (3 with no social links, 2 with one or two,
\* else 0).
C3_LeadScoreFormula ==
    sl_pc = "scored" =>
        sl_lead.lead_score =
              3 * B2N(sl_metadata.is_myshopify_domain)
            + (CASE ~sl_metadata.has_about_page /\ ~sl_metadata.has_story_page -> 3
                 [] (sl_metadata.has_about_page \/ sl_metadata.has_story_page)
                    /\ sl_metadata.about_page_word_count < 150
                    /\ sl_metadata.story_page_word_count < 150 -> 2
                 [] OTHER -> 0)
            + 2 * B2N(sl_metadata.is_default_theme)
            + (CASE sl_metadata.social_links = 0 -> 3
                 [] sl_metadata.social_links \in 1..2 -> 2
                 [] OTHER -> 0)

\* A store with an About page of 400 words and a Story page of 149 words was
\* scored: the short-page points are not given, one long page is enough.
C3_Witness ==
    /\ sl_pc = "scored"
    /\ sl_metadata.has_about_page /\ sl_metadata.has_story_page
    /\ sl_metadata.about_page_word_count = 400
    /\ sl_metadata.story_page_word_count = 149
    /\ sl_metadata.is_myshopify_domain /\ sl_metadata.is_default_theme
    /\ sl_metadata.social_links = 2
    /\ sl_lead.lead_score = 7

\* ========================================================================
\* scripts/python/scrapers/yc_scraper.py : score_company
\* ========================================================================

\* Description lengths around the 150-character threshold.
DescLens == {0, 9, 149, 150, 300}

\* metadata['team_size']: missing/None/'' ("missing"), a string or int that
\* int() accepts ("int", with its value), or one that int() rejects ("bad").
TeamSizes ==
    { [kind |-> "missing", n |-> 0], [kind |-> "bad", n |-> 0] }
    \cup { [kind |-> "int", n |-> k] : k \in {-1, 0, 1, 4, 5, 12} }

\* The keys score_company reads: truthiness of website/logo/video/github/
\* founders, the length of description, and team_size.
YCMetadata ==
    [website : BOOLEAN, description : DescLens, logo : BOOLEAN, video : BOOLEAN,
     github : BOOLEAN, team_size : TeamSizes, founders : BOOLEAN]

NoYCMetadata ==
    [website |-> FALSE, description |-> 0, logo |-> FALSE, video |-> FALSE,
     github |-> FALSE, team_size |-> [kind |-> "missing", n |-> 0], founders |-> FALSE]

\* int(metadata.get('team_size') or 0): the value, or an exception.
team_size_int(ts) ==
    CASE ts.kind = "missing" -> [raised |-> FALSE, ts |-> 0]
      [] ts.kind = "bad"     -> [raised |-> TRUE,  ts |-> 0]
      [] OTHER               -> [raised |-> FALSE, ts |-> ts.n]

\* A plausible slip: the description threshold is tested with <= .
score_company_DescLe(metadata) ==
      (IF ~metadata.website THEN 3 ELSE 0)
    + (IF metadata.description <= 150 THEN 2 ELSE 0)
    + (IF ~metadata.logo THEN 2 ELSE 0)
    + (IF ~metadata.video THEN 2 ELSE 0)
    + (IF ~metadata.github THEN 1 ELSE 0)
    + (LET t == team_size_int(metadata.team_size) IN
       IF ~t.raised /\ t.ts # 0 /\ t.ts < 5 THEN 1 ELSE 0)
    + (IF ~metadata.founders THEN 1 ELSE 0)

score_company(metadata) ==
    LET s0 == 0
        \* No website
        s1 == IF ~metadata.website THEN s0 + 3 ELSE s0
        \* Short/weak description
        desc == metadata.description
        s2 == IF desc < 150 THEN s1 + 2 ELSE s1
        \* No logo
        s3 == IF ~metadata.logo THEN s2 + 2 ELSE s2
        \* No video/demo
        s4 == IF ~metadata.video THEN s3 + 2 ELSE s3
        \* GitHub
        s5 == IF ~metadata.github THEN s4 + 1 ELSE s4
        \* Team size
        t  == team_size_int(metadata.team_size)
        s6 == IF t.raised THEN s5
              ELSE IF t.ts # 0 /\ t.ts < 5 THEN s5 + 1 ELSE s5
        \* Founders
        s7 == IF ~metadata.founders THEN s6 + 1 ELSE s6
    IN s7

\* utils/add_yc_to_leads_prioritized.py : compute_priority
compute_priority(score, website) ==
    LET base == IF ~website THEN score + 10 ELSE score
    IN Min(base, 100)

\* run: score = self.score_company(company); company['score'] = score
SC_Score ==
    /\ sc_pc = "metadata"
    /\ sc_score' = score_company(sc_metadata)
    /\ sc_pc' = "scored"
    /\ UNCHANGED <<sc_metadata, sc_priority>>
    /\ UNCHANGED notScore

\* add_yc_to_leads_prioritized reads the saved row and computes its priority.
SC_Priority ==
    /\ sc_pc = "scored"
    /\ sc_priority' = compute_priority(sc_score, sc_metadata.website)
    /\ sc_pc' = "prioritized"
    /\ UNCHANGED <<sc_metadata, sc_score>>
    /\ UNCHANGED notScore

ScoreOff == sc_pc = "off" /\ sc_metadata = NoYCMetadata /\ sc_score = 0 /\ sc_priority = 0

ScoreInit == sc_pc = "metadata" /\ sc_metadata \in YCMetadata /\ sc_score = 0 /\ sc_priority = 0

\* C4: score_company returns a lead score in the range 0..9.
C4_ScoreInZeroToNine ==
    sc_pc \in {"scored", "prioritized"} => sc_score \in 0..9

\* C5: score_company returns the sum of the documented weights: +3 no website,
\* +2 description shorter than 150 characters, +2 no logo, +2 no video, +1 no
\* GitHub link, +1 team size available and below 5, +1 no founders; a missing
\* or zero team size adds nothing.
C5_ScoreIsDocumentedSum ==
    sc_pc \in {"scored", "prioritized"} =>
        LET m == sc_metadata
            team_small == m.team_size.kind = "int" /\ m.team_size.n # 0 /\ m.team_size.n < 5
        IN sc_score = 3 * B2N(~m.website) + 2 * B2N(m.description < 150)
                      + 2 * B2N(~m.logo) + 2 * B2N(~m.video) + B2N(~m.github)
                      + B2N(team_small) + B2N(~m.founders)

\* A company with a 150-character description and a team of 4 was scored, and
\* one with a zero team size was too.
C5_Witness ==
    /\ sc_pc = "scored"
    /\ sc_metadata.description = 150
    /\ sc_metadata.team_size = [kind |-> "int", n |-> 4]
    /\ sc_metadata.website /\ ~sc_metadata.logo /\ sc_metadata.video
    /\ sc_metadata.github /\ ~sc_metadata.founders
    /\ sc_score = 4

\* ========================================================================
\* scripts/python/scrapers/yc_scraper.py : run, the detail-page thread pool
\* ========================================================================

max_workers == 10

Futures == 1..yc_n

Running == { f \in Futures : yc_future[f] = "running" }

\* A plausible slip: the pool starts a work item as soon as it is queued, with no
\* limit on the threads.
WorkerFree_Unbounded == TRUE

\* ThreadPoolExecutor starts at most max_workers threads, each running one
\* work item at a time.
WorkerFree == Cardinality(Running) < max_workers

\* executor.submit(self._extract_detail_page, url): the dict comprehension
\* creates the futures one after the other, in the order of urls_to_fetch.
YC_Submit ==
    /\ yc_pc = "submit"
    /\ IF yc_submitted < yc_n
       THEN /\ yc_submitted' = yc_submitted + 1
            /\ UNCHANGED yc_pc
       ELSE /\ yc_pc' = "as_completed"
            /\ UNCHANGED yc_submitted
    /\ UNCHANGED <<yc_n, yc_future>>
    /\ UNCHANGED notPool

\* A worker thread takes the oldest queued work item and starts
\* _extract_detail_page (session.get of the detail page).
YC_WorkerStart ==
    /\ yc_pc \in {"submit", "as_completed"}
    /\ WorkerFree
    /\ \E f \in Futures :
          /\ f <= yc_submitted
          /\ yc_future[f] = "pending"
          /\ \A g \in 1..(f - 1) : yc_future[g] # "pending"
          /\ yc_future' = [yc_future EXCEPT ![f] = "running"]
    /\ UNCHANGED <<yc_pc, yc_n, yc_submitted>>
    /\ UNCHANGED notPool

\* _extract_detail_page returns (it catches its own exceptions).
YC_WorkerFinish ==
    /\ yc_pc \in {"submit", "as_completed"}
    /\ \E f \in Running : yc_future' = [yc_future EXCEPT ![f] = "finished"]
    /\ UNCHANGED <<yc_pc, yc_n, yc_submitted>>
    /\ UNCHANGED notPool

\* for future in as_completed(...): the calling thread merges the detail
\* fields of one finished future into its company.
YC_Merge ==
    /\ yc_pc = "as_completed"
    /\ \E f \in Futures :
          /\ yc_future[f] = "finished"
          /\ yc_future' = [yc_future EXCEPT ![f] = "merged"]
    /\ UNCHANGED <<yc_pc, yc_n, yc_submitted>>
    /\ UNCHANGED notPool

\* The with block ends once every future was yielded: scoring starts.
YC_PoolExit ==
    /\ yc_pc = "as_completed"
    /\ \A f \in Futures : yc_future[f] = "merged"
    /\ yc_pc' = "score"
    /\ UNCHANGED <<yc_n, yc_submitted, yc_future>>
    /\ UNCHANGED notPool

PoolOff == yc_pc = "off" /\ yc_n = 0 /\ yc_submitted = 0 /\ yc_future = <<>>

PoolInit ==
    /\ yc_pc = "submit"
    /\ yc_n \in 1..MaxCompanies
    /\ yc_submitted = 0
    /\ yc_future = [f \in 1..yc_n |-> "pending"]

\* C1 as stated: run never has two detail-page fetches in progress at once.
C1_NoTwoFetchesAtOnce == Cardinality(Running) <= 1

\* C1 as amended: run fetches detail pages on a pool of max_workers = 10
\* threads, so at most 10 detail-page fetches are in progress at any time.
C1_AtMostMaxWorkersFetches == Cardinality(Running) <= 10

\* Ten fetches are in progress while an eleventh company waits in the queue.
C1_Witness ==
    /\ Cardinality(Running) = 10
    /\ \E f \in Futures : yc_future[f] = "pending" /\ f <= yc_submitted

\* ========================================================================
\* scripts/python/scrapers/justdial_enriched_scraper.py : run
\* ========================================================================

max_attempts == 20

\* Listing names as the page shows them, and name.strip().lower().
ListNames == {"Cafe A", "cafe a ", "Cafe B"}

Norm(name) ==
    CASE name = "Cafe A"  -> "cafe a"
      [] name = "cafe a " -> "cafe a"
      [] name = "Cafe B"  -> "cafe b"
      [] OTHER            -> name

\* A dict is a function from its keys.  Python truthiness of a value stored
\* under key k: website_present holds a bool, every other key a string.
Truthy(k, v) == IF k = "website_present" THEN v = TRUE ELSE v # ""

\* dict.get(k) is truthy
HasValue(d, k) == k \in DOMAIN d /\ Truthy(k, d[k])

\* extract_metadata_from_list: the keys of the list dict (of which the model
\* keeps name, rating, website, website_present).  The list page fills name
\* and rating when it finds them, and never website or website_present.
ListMetas ==
    { [name |-> n, rating |-> r, website |-> "", website_present |-> FALSE] :
        n \in ListNames \cup {""}, r \in {"", "4.1"} }

\* extract_detail_page: the keys of the detail dict (of which the model keeps
\* rating, website, website_present, instagram).  website_present is set
\* together with website.  The pages of the model: nothing found, each of
\* the three fields found alone, and all of them found.
DetailPage(r, w, ig) ==
    [rating |-> r, website |-> w, website_present |-> (w # ""), instagram |-> ig]

DetailPages ==
    { DetailPage("", "", ""),
      DetailPage("4.5", "", ""),
      DetailPage("", "http://cafe.example", ""),
      DetailPage("", "", "https://instagram.com/cafe"),
      DetailPage("4.5", "http://cafe.example", "https://instagram.com/cafe") }

\* detail_meta = {} when the item has no detail_url or fetch_page failed.
EmptyDict == [k \in {} |-> ""]

DetailMetas == DetailPages \cup {EmptyDict}

\* A plausible slip: the detail value overrides whenever it is non-empty.
MergeListDetail_DetailWins(list_meta, detail_meta) ==
    LET taken == { k \in DOMAIN detail_meta : Truthy(k, detail_meta[k]) }
        merged_meta == [k \in DOMAIN list_meta \cup taken |->
                      IF k \in taken THEN detail_meta[k] ELSE list_meta[k]]
    IN [merged_meta EXCEPT !["website_present"] = HasValue(merged_meta, "website")]

\* merged = dict(list_meta); for k, v in detail_meta.items(): if v and (not
\* merged.get(k)): merged[k] = v; then merged['website_present'] =
\* bool(merged.get('website')).
MergeListDetail(list_meta, detail_meta) ==
    LET taken == { k \in DOMAIN detail_meta :
                      Truthy(k, detail_meta[k]) /\ ~HasValue(list_meta, k) }
        merged_meta == [k \in DOMAIN list_meta \cup taken |->
                      IF k \in taken THEN detail_meta[k] ELSE list_meta[k]]
    IN [merged_meta EXCEPT !["website_present"] = HasValue(merged_meta, "website")]

\* if not self.fetch_page(url, ...): return []
JD_Fetch ==
    /\ jd_pc = "fetch"
    /\ \E ok \in BOOLEAN :
          jd_pc' = IF ok THEN "while" ELSE "done"
    /\ UNCHANGED <<jd_target, jd_results, jd_seen_names, jd_attempts, jd_batch,
                   jd_start_seen, jd_list_meta, jd_detail_meta, jd_raised>>
    /\ UNCHANGED notJd

\* while len(self.results) < target and attempts < max_attempts
WhileCondition == Len(jd_results) < jd_target /\ jd_attempts < max_attempts

\* The loop test and, when it passes, the scan of the page: attempts += 1,
\* get_listing_elements() (which raises when the driver is gone) and the
\* snapshot of the batch.  The content of each batch item is whatever the site
\* shows; the model draws it when the item is visited.
JD_While ==
    /\ jd_pc = "while"
    /\ IF WhileCondition
       THEN /\ jd_attempts' = jd_attempts + 1
            /\ \/ /\ jd_pc' = "done"
                  /\ jd_raised' = TRUE
                  /\ UNCHANGED <<jd_batch, jd_start_seen>>
               \/ /\ jd_pc' = "items"
                  /\ jd_batch' \in 0..MaxBatch
                  /\ jd_start_seen' = Cardinality(jd_seen_names)
                  /\ UNCHANGED jd_raised
       ELSE /\ jd_pc' = "done"
            /\ UNCHANGED <<jd_attempts, jd_batch, jd_start_seen, jd_raised>>
    /\ UNCHANGED <<jd_target, jd_results, jd_seen_names, jd_list_meta, jd_detail_meta>>
    /\ UNCHANGED notJd

\* A plausible slip: the inner loop does not stop at target.
ItemBreak_Never == FALSE

\* if len(self.results) >= target: break
ItemBreak == Len(jd_results) >= jd_target

\* One pass of `for item in batch`.
JD_Item ==
    /\ jd_pc = "items"
    /\ IF jd_batch = 0 \/ ItemBreak
       THEN /\ jd_pc' = "after"
            /\ jd_batch' = 0
            /\ UNCHANGED <<jd_results, jd_seen_names, jd_list_meta, jd_detail_meta>>
       ELSE \E list_meta \in ListMetas, detail_meta \in DetailMetas :
            /\ jd_batch' = jd_batch - 1
            /\ UNCHANGED jd_pc
            /\ IF list_meta.name = "" \/ Norm(list_meta.name) \in jd_seen_names
               THEN UNCHANGED <<jd_results, jd_seen_names, jd_list_meta, jd_detail_meta>>
               ELSE /\ jd_results' = Append(jd_results, MergeListDetail(list_meta, detail_meta))
                    /\ jd_seen_names' = jd_seen_names \cup {Norm(list_meta.name)}
                    /\ jd_list_meta' = list_meta
                    /\ jd_detail_meta' = detail_meta
    /\ UNCHANGED <<jd_target, jd_attempts, jd_start_seen, jd_raised>>
    /\ UNCHANGED notJd

\* After the batch: stop at target; without a new name, stop unless load_more()
\* loaded something; with progress, load_more() and go round again.  The
\* loop body's list_meta and detail_meta are out of use from here on.
JD_After ==
    /\ jd_pc = "after"
    /\ IF Len(jd_results) >= jd_target
       THEN jd_pc' = "done"
       ELSE \E load_more \in BOOLEAN :
            IF Cardinality(jd_seen_names) = jd_start_seen
            THEN jd_pc' = IF load_more THEN "while" ELSE "done"
            ELSE jd_pc' = "while"
    /\ jd_list_meta' = EmptyDict
    /\ jd_detail_meta' = EmptyDict
    /\ UNCHANGED <<jd_target, jd_results, jd_seen_names, jd_attempts, jd_batch,
                   jd_start_seen, jd_raised>>
    /\ UNCHANGED notJd

JdOff ==
    /\ jd_pc = "off" /\ jd_target = 0 /\ jd_results = <<>> /\ jd_seen_names = {}
    /\ jd_attempts = 0 /\ jd_batch = 0 /\ jd_start_seen = 0
    /\ jd_list_meta = EmptyDict /\ jd_detail_meta = EmptyDict /\ jd_raised = FALSE

\* A fresh scraper (self.results == []) on which run(url, target) is called.
JdInit ==
    /\ jd_pc = "fetch" /\ jd_target \in 0..MaxTarget /\ jd_results = <<>>
    /\ jd_seen_names = {} /\ jd_attempts = 0 /\ jd_batch = 0 /\ jd_start_seen = 0
    /\ jd_list_meta = EmptyDict /\ jd_detail_meta = EmptyDict /\ jd_raised = FALSE

\* The record run appended last, while its list_meta and detail_meta are at hand.
LastMerged == jd_results[Len(jd_results)]

JustMerged == jd_pc = "items" /\ DOMAIN jd_list_meta # {}

\* C6: the merged record keeps the list-page value of every field the list
\* page filled; a detail-page value appears only under a key the list page
\* left empty or did not have.
C6_ListValuesKept ==
    JustMerged =>
        /\ \A k \in DOMAIN jd_list_meta :
              /\ k \in DOMAIN LastMerged
              /\ HasValue(jd_list_meta, k) => LastMerged[k] = jd_list_meta[k]
        /\ \A k \in DOMAIN LastMerged :
              \/ k \in DOMAIN jd_list_meta /\ LastMerged[k] = jd_list_meta[k]
              \/ /\ ~HasValue(jd_list_meta, k)
                 /\ k \in DOMAIN jd_detail_meta
                 /\ LastMerged[k] = jd_detail_meta[k]

\* A listing whose list page gave a rating was merged with a detail page that
\* gave another rating, a website and an Instagram link.
C6_Witness ==
    /\ JustMerged
    /\ jd_list_meta.rating = "4.1"
    /\ DOMAIN jd_detail_meta # {}
    /\ jd_detail_meta.rating = "4.5"
    /\ jd_detail_meta.website # ""
    /\ jd_detail_meta.instagram # ""
    /\ LastMerged.rating = "4.1"
    /\ LastMerged.website = jd_detail_meta.website
    /\ LastMerged.website_present = TRUE
    /\ "instagram" \in DOMAIN LastMerged

\* C7: run always terminates; the listing loop makes at most 20 scan
\* iterations, never goes round again once target results are collected, and
\* a fresh scraper never holds more than target results.
C7_RunTerminates ==
    /\ [](/\ jd_attempts <= 20
          /\ Len(jd_results) <= jd_target
          /\ (jd_pc = "while" /\ jd_attempts > 0 => Len(jd_results) < jd_target))
    /\ <>(jd_pc = "done")

\* run returned after all 20 scan iterations without reaching its target.
C7_Witness ==
    /\ jd_pc = "done"
    /\ ~jd_raised
    /\ jd_attempts = 20
    /\ jd_target = 2
    /\ Len(jd_results) = 1

\* ========================================================================
\* scripts/python/utils/merge_all_leads.py : merge_and_deduplicate
\* ========================================================================

\* A row of a unified frame holds the columns merge_and_deduplicate reads:
\* lead_type, source and website.
MalWebsites == {NULL, "", "a.com"}

BusinessRows ==
    { [lead_type |-> "business", source |-> src, website |-> w] :
        src \in {"google_maps", "justdial"}, w \in MalWebsites }

InfluencerRows ==
    { [lead_type |-> "influencer_brand", source |-> src, website |-> w] :
        src \in {"instagram", NULL}, w \in MalWebsites }

\* The rows of a frame with their identity: the frame they came from and
\* their place in it.
Tagged(frame, origin) ==
    [i \in 1..Len(frame) |->
        [id |-> <<origin, i>>, lead_type |-> frame[i].lead_type,
         source |-> frame[i].source, website |-> frame[i].website]]

\* by=['lead_type', 'source'], ascending
ByLeadTypeSource(df) ==
    [i \in 1..Len(df) |-> <<Place(df[i].lead_type), Place(df[i].source)>>]

\* merged['website'].notna() & (merged['website'] != '')
has_website(df) == [i \in 1..Len(df) |-> notna(df[i].website) /\ df[i].website # ""]

\* ~has_website
no_website(df) == [i \in 1..Len(df) |-> ~has_website(df)[i]]

\* subset=['website']
WebsiteKey(df) == [i \in 1..Len(df) |-> df[i].website]

merge_and_deduplicate(b_df, i_df) ==
    IF Len(b_df) = 0 /\ Len(i_df) = 0 THEN <<>>
    ELSE IF Len(b_df) = 0 THEN i_df
    ELSE IF Len(i_df) = 0 THEN b_df
    ELSE LET concatenated == concat(b_df, i_df)
             sorted == StableSort(concatenated, ByLeadTypeSource(concatenated))
             with_site == Where(sorted, has_website(sorted))
             dedup_website == drop_duplicates(with_site, WebsiteKey(with_site))
         IN concat(dedup_website, Where(sorted, no_website(sorted)))

\* main: unified_df = merge_and_deduplicate(business_df, influencer_df)
MAL_Merge ==
    /\ mal_pc = "loaded"
    /\ unified_df' = merge_and_deduplicate(business_df, influencer_df)
    /\ mal_pc' = "merged"
    /\ UNCHANGED <<business_df, influencer_df>>
    /\ UNCHANGED notMal

MalOff == mal_pc = "off" /\ business_df = <<>> /\ influencer_df = <<>> /\ unified_df = <<>>

MalInit ==
    /\ mal_pc = "loaded"
    /\ business_df \in { Tagged(f, "business_df") : f \in SeqsUpTo(BusinessRows, MaxFrame) }
    /\ influencer_df \in { Tagged(f, "influencer_df") : f \in SeqsUpTo(InfluencerRows, MaxFrame) }
    /\ unified_df = <<>>

\* C8: the frame merge_and_deduplicate returns holds no two rows with the same
\* non-empty website, and every input row whose website is empty or null.
C8_DedupByWebsite ==
    mal_pc = "merged" =>
        /\ \A i, j \in 1..Len(unified_df) :
              (i # j /\ unified_df[i].website \notin {NULL, ""})
                  => unified_df[i].website # unified_df[j].website
        /\ \A k \in 1..Len(business_df) + Len(influencer_df) :
              LET r == concat(business_df, influencer_df)[k] IN
              r.website \in {NULL, ""} => \E i \in 1..Len(unified_df) : unified_df[i] = r

\* ========================================================================
\* utils/merge_datasets.py : load_and_map_files
\* ========================================================================

\* The columns of a mapped row that the deduplication reads.
LmfRows ==
    { [name |-> n, city |-> c, website |-> w, phone |-> ph] :
        n \in {NULL, "Acme"}, c \in {NULL, "Pune"},
        w \in {NULL, "a.com", "b.com"}, ph \in {NULL, "111"} }

\* out['source'] = 'indiamart' / 'justdial' in map_indiamart / map_justdial
FromSource(rows, src) ==
    [i \in 1..Len(rows) |->
        [name |-> rows[i].name, city |-> rows[i].city, website |-> rows[i].website,
         phone |-> rows[i].phone, source |-> src]]

\* str.len() of the names of the model
StrLen(str) == CASE str = "" -> 0 [] str = "Acme" -> 4 [] OTHER -> 0

\* name_series = merged['name'].fillna('').astype(str);
\* name_quality = ~contains('see who works here') & (len > 3)
name_quality(name) ==
    LET name_series == IF notna(name) THEN name ELSE ""
    IN name_series # "see who works here" /\ StrLen(name_series) > 3

WithQuality(frame) ==
    [i \in 1..Len(frame) |->
        [id |-> i, name |-> frame[i].name, city |-> frame[i].city,
         website |-> frame[i].website, phone |-> frame[i].phone,
         source |-> frame[i].source, name_quality |-> name_quality(frame[i].name)]]

has_site(m) == [i \in 1..Len(m) |-> notna(m[i].website)]
no_site(m) == [i \in 1..Len(m) |-> ~has_site(m)[i]]
has_phone(m) == [i \in 1..Len(m) |-> notna(m[i].phone)]
no_phone(m) == [i \in 1..Len(m) |-> ~has_phone(m)[i]]
both(m) == [i \in 1..Len(m) |-> notna(m[i].name) /\ notna(m[i].city)]
rest(m) == [i \in 1..Len(m) |-> ~both(m)[i]]

\* subset=['phone'], subset=['name', 'city']
PhoneKey(m) == [i \in 1..Len(m) |-> m[i].phone]
NameCityKey(m) == [i \in 1..Len(m) |-> <<m[i].name, m[i].city>>]

\* by=['website', 'name_quality', 'source'], ascending=[True, False, True]
BySiteQualitySource(m) ==
    [i \in 1..Len(m) |-> <<Place(m[i].website),
                           IF m[i].name_quality THEN 0 ELSE 1,
                           Place(m[i].source)>>]

\* by=['phone', 'source']
ByPhoneSource(m) == [i \in 1..Len(m) |-> <<Place(m[i].phone), Place(m[i].source)>>]

\* by=['name', 'city', 'source']
ByNameCitySource(m) ==
    [i \in 1..Len(m) |-> <<Place(m[i].name), Place(m[i].city), Place(m[i].source)>>]

\* 1) By website (only non-null websites)
DedupSite(m) ==
    LET with_site == Where(m, has_site(m))
        sorted == StableSort(with_site, BySiteQualitySource(with_site))
        dedup_site == drop_duplicates(sorted, WebsiteKey(sorted))
    IN concat(dedup_site, Where(m, no_site(m)))

\* A plausible slip: the phone pass deduplicates the whole frame, null phones
\* included.
DedupPhone_AllRows(m) ==
    LET sorted == StableSort(m, ByPhoneSource(m))
    IN drop_duplicates(sorted, PhoneKey(sorted))

\* 2) By phone (only non-null phones)
DedupPhone(m) ==
    LET with_phone == Where(m, has_phone(m))
        sorted == StableSort(with_phone, ByPhoneSource(with_phone))
        dedup_phone == drop_duplicates(sorted, PhoneKey(sorted))
    IN concat(dedup_phone, Where(m, no_phone(m)))

\* 3) By name+city (only rows where both exist)
DedupNameCity(m) ==
    LET with_both == Where(m, both(m))
        sorted == StableSort(with_both, ByNameCitySource(with_both))
        dedup_name_city == drop_duplicates(sorted, NameCityKey(sorted))
    IN concat(dedup_name_city, Where(m, rest(m)))

\* if not frames: return an empty frame; else merged = pd.concat(frames) and
\* the name_quality column; `id` tells the concatenated rows apart.
LMF_Concat ==
    /\ lmf_pc = "frames"
    /\ IF Len(frames) = 0
       THEN lmf_pc' = "done" /\ merged' = <<>>
       ELSE /\ lmf_pc' = "website"
            /\ merged' = WithQuality(concat(frames[1], frames[2]))
    /\ UNCHANGED frames
    /\ UNCHANGED notLmf

LMF_DedupSite ==
    /\ lmf_pc = "website"
    /\ merged' = DedupSite(merged)
    /\ lmf_pc' = "phone"
    /\ UNCHANGED frames
    /\ UNCHANGED notLmf

LMF_DedupPhone ==
    /\ lmf_pc = "phone"
    /\ merged' = DedupPhone(merged)
    /\ lmf_pc' = "name_city"
    /\ UNCHANGED frames
    /\ UNCHANGED notLmf

\* The last pass; what follows it (schema, types, dropping name_quality)
\* removes no row.
LMF_DedupNameCity ==
    /\ lmf_pc = "name_city"
    /\ merged' = DedupNameCity(merged)
    /\ lmf_pc' = "done"
    /\ UNCHANGED frames
    /\ UNCHANGED notLmf

LmfOff == lmf_pc = "off" /\ frames = <<>> /\ merged = <<>>

\* No file at all, or an IndiaMART frame followed by a JustDial frame.
LmfInit ==
    /\ lmf_pc = "frames"
    /\ \/ frames = <<>>
       \/ \E rows \in SeqsUpTo(LmfRows, MaxRows) : \E k \in 0..Len(rows) :
             frames = <<FromSource(SubSeq(rows, 1, k), "indiamart"),
                        FromSource(SubSeq(rows, k + 1, Len(rows)), "justdial")>>
    /\ merged = <<>>

\* The rows of a frame, by the place they had when the frames were concatenated.
Ids(m) == { m[i].id : i \in 1..Len(m) }

\* C9: the frame load_and_map_files returns holds no two rows with the same
\* non-null website, none with the same non-null phone, none with the same
\* (name, city) when both are non-null; and the deduplication pass on a key
\* never removes a row whose key is null.
C9_DedupKeepsNullKeys ==
    /\ [](lmf_pc = "done" =>
            \A i, j \in 1..Len(merged) : i # j =>
                /\ merged[i].website # NULL => merged[i].website # merged[j].website
                /\ merged[i].phone # NULL => merged[i].phone # merged[j].phone
                /\ (merged[i].name # NULL /\ merged[i].city # NULL)
                      => <<merged[i].name, merged[i].city>> # <<merged[j].name, merged[j].city>>)
    /\ [][ \A i \in 1..Len(merged) :
             /\ (lmf_pc = "website" /\ merged[i].website = NULL) => merged[i].id \in Ids(merged')
             /\ (lmf_pc = "phone" /\ merged[i].phone = NULL) => merged[i].id \in Ids(merged')
             /\ (lmf_pc = "name_city" /\ (merged[i].name = NULL \/ merged[i].city = NULL))
                   => merged[i].id \in Ids(merged') ]_vars

\* Two rows shared a phone and had no website: the website pass kept both, the
\* phone pass removed one of them.
C9_Witness ==
    /\ lmf_pc = "done"
    /\ Len(frames) = 2
    /\ Len(frames[1]) + Len(frames[2]) = 2
    /\ \A i \in 1..2 : LET r == concat(frames[1], frames[2])[i] IN
                       r.website = NULL /\ r.phone = "111"
    /\ Len(merged) = 1

\* ========================================================================
\* integration/sheets_writer.py : write_leads_to_sheets
\* ========================================================================

\* result = {'success': False, 'leads_added': 0, 'sheet_url': None, 'error': None}
\* sheet_url and error are "None" or the kind of string they hold.
InitialSheetsResult ==
    [success |-> FALSE, leads_added |-> 0, sheet_url |-> "None", error |-> "None"]

\* authenticate_sheets: the client, or None when the credentials file is
\* missing or any call raises.
AuthOutcomes == {"client", "None"}

\* get_or_create_sheet: open_by_key(sheet_id) or create(...), then
\* worksheet(sheet_name) or add_worksheet(...).  Any exception gives None.
\*   created: client.create succeeded (only without a sheet_id)
\*   worksheet: a worksheet object is returned
GetSheetOutcomes(has_id) ==
    IF has_id
    THEN { [created |-> FALSE, worksheet |-> w] : w \in BOOLEAN }
    ELSE { [created |-> FALSE, worksheet |-> FALSE] }
         \cup { [created |-> TRUE, worksheet |-> w] : w \in BOOLEAN }

\* A plausible slip: the check of the client is dropped, so a failed
\* authentication goes on to the worksheet.
WL_AuthFailed_Ignored(client) == FALSE

\* if not client
WL_AuthFailed(client) == client = "None"

\* client = authenticate_sheets(credentials_file); if not client: ... return result
WL_Authenticate ==
    /\ wl_pc = "authenticate"
    /\ \E client \in AuthOutcomes :
          /\ wl_client' = client
          /\ IF WL_AuthFailed(client)
             THEN /\ wl_result' = [wl_result EXCEPT !.error = "Authentication failed"]
                  /\ wl_pc' = "returned"
             ELSE /\ wl_pc' = "get_sheet"
                  /\ UNCHANGED wl_result
    /\ UNCHANGED <<wl_leads, wl_sheet_id, wl_raised, sheet_created, sheet_headers, sheet_rows>>
    /\ UNCHANGED notSheet

\* worksheet = get_or_create_sheet(client, sheet_id); if not worksheet: ... return result
WL_GetSheet ==
    /\ wl_pc = "get_sheet"
    /\ \E out \in GetSheetOutcomes(wl_sheet_id) :
          /\ sheet_created' = sheet_created + B2N(out.created)
          /\ IF ~out.worksheet
             THEN /\ wl_result' = [wl_result EXCEPT !.error = "Failed to get/create worksheet"]
                  /\ wl_pc' = "returned"
             ELSE /\ wl_pc' = "headers"
                  /\ UNCHANGED wl_result
    /\ UNCHANGED <<wl_leads, wl_sheet_id, wl_raised, wl_client, sheet_headers, sheet_rows>>
    /\ UNCHANGED notSheet

\* initialize_sheet_headers(worksheet): writes the header row unless it is
\* there already; returns False on any exception, and the caller ignores it.
WL_Headers ==
    /\ wl_pc = "headers"
    /\ \E written \in BOOLEAN : sheet_headers' = written
    /\ wl_pc' = "append"
    /\ UNCHANGED <<wl_leads, wl_sheet_id, wl_result, wl_raised, wl_client, sheet_created, sheet_rows>>
    /\ UNCHANGED notSheet

\* The leads argument: a list of leads (items[i] says whether lead i is a
\* dict), or a value `for lead in leads` cannot iterate (None).
LeadsInputs(n) ==
    { [iterable |-> TRUE, items |-> l] : l \in SeqsUpTo(BOOLEAN, n) }
    \cup { [iterable |-> FALSE, items |-> <<>>] }

NoLeads == [iterable |-> TRUE, items |-> <<>>]

\* The rows append_leads formats: a lead that is no dict raises in lead.get
\* and is skipped.
rows_to_add(leads) == Cardinality({ i \in 1..Len(leads.items) : leads.items[i] })

\* append_leads: append_rows(rows_to_add) in one batch; when that raises,
\* append_row one by one, counting the rows that went through.
AppendOutcomes(leads) ==
    IF rows_to_add(leads) = 0 THEN {0}
    ELSE {rows_to_add(leads)} \cup 0..rows_to_add(leads)

\* count = append_leads(worksheet, leads); result['success'] = count > 0;
\* result['leads_added'] = count; result['sheet_url'] = worksheet.spreadsheet.url
\* The for loop of append_leads is outside its try blocks: leads that cannot
\* be iterated raise TypeError into the except branch of write_leads_to_sheets.
WL_Append ==
    /\ wl_pc = "append"
    /\ IF ~wl_leads.iterable
       THEN /\ wl_result' = [wl_result EXCEPT !.error = "object is not iterable"]
            /\ UNCHANGED sheet_rows
       ELSE \E added_count \in AppendOutcomes(wl_leads) :
            /\ sheet_rows' = sheet_rows + added_count
            /\ wl_result' = [wl_result EXCEPT !.success = added_count > 0,
                                              !.leads_added = added_count,
                                              !.sheet_url = "https://docs.google.com/..."]
    /\ wl_pc' = "returned"
    /\ UNCHANGED <<wl_leads, wl_sheet_id, wl_raised, wl_client, sheet_created, sheet_headers>>
    /\ UNCHANGED notSheet

SheetOff ==
    /\ wl_pc = "off" /\ wl_leads = NoLeads /\ wl_sheet_id = FALSE
    /\ wl_result = InitialSheetsResult /\ wl_raised = FALSE /\ wl_client = "unset"
    /\ sheet_created = 0 /\ sheet_headers = FALSE /\ sheet_rows = 0

\* write_leads_to_sheets(leads, sheet_id) is called.
SheetInit ==
    /\ wl_pc = "authenticate"
    /\ wl_leads \in LeadsInputs(MaxLeads)
    /\ wl_sheet_id \in BOOLEAN
    /\ wl_result = InitialSheetsResult /\ wl_raised = FALSE /\ wl_client = "unset"
    /\ sheet_created = 0 /\ sheet_headers = FALSE /\ sheet_rows = 0

min_score == 40

\* What json.load gives for the input file, and what load_businesses_from_json
\* makes of it:
\*   "missing"    no file, or invalid JSON: []
\*   "list"       a list: the list
\*   "data_list"  a dict whose 'data' is a list: that list
\*   "data_dict"  a dict whose 'data' is a non-empty dict: that dict
\*   "single"     any other value: [data]
InputFiles ==
    { [kind |-> "missing", items |-> <<>>] }
    \cup { [kind |-> k, items |-> l] :
             k \in {"list", "data_list"}, l \in SeqsUpTo(BusinessInputs, MaxBiz) }
    \cup { [kind |-> "data_dict", items |-> <<>>] }
    \cup { [kind |-> "single", items |-> <<b>>] : b \in BusinessInputs }

load_businesses_from_json(file) ==
    CASE file.kind = "missing"   -> [is_list |-> TRUE,  items |-> <<>>]
      [] file.kind = "data_dict" -> [is_list |-> FALSE, items |-> <<>>]
      [] OTHER                   -> [is_list |-> TRUE,  items |-> file.items]

\* [b for b in businesses if b.get('score', 0) >= min_score], over the list
\* analyze_websites returned
filter_qualified_leads(analyzed) ==
    Rows(analyzed, { k \in 1..Len(analyzed) : businesses[analyzed[k]].score >= min_score })

NoResults == [success |-> FALSE, leads_added |-> 0, sheet_url |-> "None"]

NoReport == [generated |-> FALSE, leads_added |-> 0]

AllSteps == <<"load", "analyze", "filter", "backup", "sheets", "report", "status">>

\* Step 1: load; `if not businesses: return`; businesses[:batch_size], which
\* raises TypeError on a dict; then the call of analyze_websites(businesses,
\* max_concurrent=batch_size).  website_checker's own StatusTracker has loaded
\* its counters from data/status.txt (an int, or the raw string).
MAIN_Load ==
    /\ main_pc = "load"
    /\ LET loaded == load_businesses_from_json(input_file) IN
       IF ~loaded.is_list
       THEN /\ main_pc' = "raised"
            /\ main_steps' = Append(main_steps, "load")
            /\ UNCHANGED webVars
       ELSE IF loaded.items = <<>>
       THEN /\ main_pc' = "no_data"
            /\ main_steps' = Append(main_steps, "load")
            /\ UNCHANGED webVars
       ELSE /\ main_pc' = "analyze"
            /\ main_steps' = main_steps \o <<"load", "analyze">>
            /\ businesses' = SubSeq(loaded.items, 1, Min(batch_size, Len(loaded.items)))
            /\ max_concurrent' = batch_size
            /\ aw_pc' = "loop"
            /\ aw_i' = 1
            /\ results' = <<>>
            /\ processed' = 0
            /\ \E isStr \in BOOLEAN :
                  stats' = [websites_checked |-> Counter(isStr, 0), errors |-> Counter(FALSE, 0)]
    /\ UNCHANGED <<input_file, batch_size, qualified_leads, main_results, report, leads_in_sheet>>
    /\ UNCHANGED sheetVars
    /\ UNCHANGED mainOthers

\* analyze_websites raised: the call at line 167 is in no try block.
MAIN_AnalyzeRaised ==
    /\ main_pc = "analyze"
    /\ aw_pc = "raised"
    /\ main_pc' = "raised"
    /\ UNCHANGED <<input_file, batch_size, main_steps, qualified_leads, main_results,
                   report, leads_in_sheet>>
    /\ UNCHANGED <<webVars, sheetVars>>
    /\ UNCHANGED mainOthers

\* Step 3: analyze_websites returned; qualified_leads = filter_qualified_leads(...)
MAIN_Filter ==
    /\ main_pc = "analyze"
    /\ aw_pc = "done"
    /\ qualified_leads' = filter_qualified_leads(results)
    /\ main_steps' = Append(main_steps, "filter")
    /\ main_pc' = "backup"
    /\ UNCHANGED <<input_file, batch_size, main_results, report, leads_in_sheet>>
    /\ UNCHANGED <<webVars, sheetVars>>
    /\ UNCHANGED mainOthers

\* Step 4: the backup JSON file (a failure is logged), then the call
\* write_leads_to_sheets(qualified_leads, sheet_id=sheet_id).
MAIN_Backup ==
    /\ main_pc = "backup"
    /\ main_steps' = main_steps \o <<"backup", "sheets">>
    /\ main_pc' = "sheets"
    /\ wl_pc' = "authenticate"
    /\ wl_leads' = [iterable |-> TRUE, items |-> [k \in 1..Len(qualified_leads) |-> TRUE]]
    /\ wl_sheet_id' \in BOOLEAN
    /\ wl_result' = InitialSheetsResult
    /\ UNCHANGED <<wl_raised, wl_client, sheet_created, sheet_headers, sheet_rows>>
    /\ UNCHANGED <<input_file, batch_size, qualified_leads, main_results, report, leads_in_sheet>>
    /\ UNCHANGED webVars
    /\ UNCHANGED mainOthers

\* if results['success']
SheetsSucceeded(r) == r.success

\* write_leads_to_sheets returned: its result is kept when it reports success;
\* otherwise results = {'success': True, 'leads_added': len(qualified_leads),
\* 'sheet_url': output_file}.
MAIN_SheetsReturned ==
    /\ main_pc = "sheets"
    /\ wl_pc = "returned"
    /\ main_results' =
          IF SheetsSucceeded(wl_result)
          THEN [success |-> wl_result.success, leads_added |-> wl_result.leads_added,
                sheet_url |-> wl_result.sheet_url]
          ELSE [success |-> TRUE, leads_added |-> Len(qualified_leads),
                sheet_url |-> "data/qualified_leads.json"]
    /\ main_pc' = "report"
    /\ UNCHANGED <<input_file, batch_size, main_steps, qualified_leads, report, leads_in_sheet>>
    /\ UNCHANGED <<webVars, sheetVars>>
    /\ UNCHANGED mainOthers

\* Step 5: generate_summary_report; saving the report file may fail silently.
MAIN_Report ==
    /\ main_pc = "report"
    /\ report' = [generated |-> TRUE, leads_added |-> main_results.leads_added]
    /\ main_steps' = Append(main_steps, "report")
    /\ main_pc' = "status"
    /\ UNCHANGED <<input_file, batch_size, qualified_leads, main_results, leads_in_sheet>>
    /\ UNCHANGED <<webVars, sheetVars>>
    /\ UNCHANGED mainOthers

\* status.update(..., leads_in_sheet=results.get('leads_added', 0), ...);
\* status.save(), whose open(..., 'w') is in no try block.
MAIN_Status ==
    /\ main_pc = "status"
    /\ leads_in_sheet' = main_results.leads_added
    /\ \E saved \in BOOLEAN :
          IF saved
          THEN main_pc' = "done" /\ main_steps' = Append(main_steps, "status")
          ELSE main_pc' = "raised" /\ UNCHANGED main_steps
    /\ UNCHANGED <<input_file, batch_size, qualified_leads, main_results, report>>
    /\ UNCHANGED <<webVars, sheetVars>>
    /\ UNCHANGED mainOthers

MainOff ==
    /\ main_pc = "off" /\ input_file = [kind |-> "missing", items |-> <<>>]
    /\ batch_size = 0 /\ main_steps = <<>> /\ qualified_leads = <<>>
    /\ main_results = NoResults /\ report = NoReport /\ leads_in_sheet = 0

MainInit ==
    /\ main_pc = "load" /\ input_file \in InputFiles
    /\ batch_size \in 1..MaxBiz /\ main_steps = <<>> /\ qualified_leads = <<>>
    /\ main_results = NoResults /\ report = NoReport /\ leads_in_sheet = 0

\* C11: main is failure-proof: when there is data to process it carries out
\* load, analyse, filter, backup, Sheets, report and status in this order and
\* runs to the end, whatever fails on the way.
C11_AllStepsRun ==
    /\ main_pc # "raised"
    /\ main_pc = "done" => main_steps = AllSteps

\* C12: the 'Leads Added to Sheets' figure of the report and the leads_in_sheet
\* status value equal the number of leads appended to the sheet in this run.
C12_FigureIsRowsAppended ==
    /\ report.generated => report.leads_added = sheet_rows
    /\ main_pc = "done" => leads_in_sheet = sheet_rows

\* ========================================================================
\* scripts/python/scrapers/yc_scraper.py : fetch_companies, _batch_matches
\* ========================================================================

\* A Python str is the sequence of its characters.
LowerCase == <<"a", "b", "c", "d", "e", "f", "g", "h", "i", "j", "k", "l", "m",
               "n", "o", "p", "q", "r", "s", "t", "u", "v", "w", "x", "y", "z">>
UpperCase == <<"A", "B", "C", "D", "E", "F", "G", "H", "I", "J", "K", "L", "M",
               "N", "O", "P", "Q", "R", "S", "T", "U", "V", "W", "X", "Y", "Z">>
Digits == {"0", "1", "2", "3", "4", "5", "6", "7", "8", "9"}

\* str.upper()
upper(s) ==
    [i \in 1..Len(s) |->
        IF \E k \in 1..Len(LowerCase) : LowerCase[k] = s[i]
        THEN UpperCase[CHOOSE k \in 1..Len(LowerCase) : LowerCase[k] = s[i]]
        ELSE s[i]]

\* str.strip()
strip(s) ==
    LET inked == {i \in 1..Len(s) : s[i] # " "}
    IN IF inked = {} THEN <<>>
       ELSE SubSeq(s, CHOOSE i \in inked : \A j \in inked : i <= j,
                      CHOOSE i \in inked : \A j \in inked : j <= i)

\* needle in hay, for two strs
In(needle, hay) ==
    \E i \in 0..(Len(hay) - Len(needle)) : SubSeq(hay, i + 1, i + Len(needle)) = needle

\* s[-2:]
LastTwo(s) == IF Len(s) <= 2 THEN s ELSE SubSeq(s, Len(s) - 1, Len(s))

\* re.search(r'(\d{2,4})', s): group(1) of the leftmost match, the longest
\* run of two to four digits starting there; <<>> stands for no match.
search_year(s) ==
    LET starts == {i \in 1..(Len(s) - 1) : s[i] \in Digits /\ s[i + 1] \in Digits}
    IN IF starts = {} THEN <<>>
       ELSE LET i == CHOOSE a \in starts : \A b \in starts : a <= b
                n == CHOOSE k \in 2..4 :
                        /\ i + k - 1 <= Len(s)
                        /\ \A j \in i..(i + k - 1) : s[j] \in Digits
                        /\ (k = 4 \/ i + k > Len(s) \/ s[i + k] \notin Digits)
            IN SubSeq(s, i, i + n - 1)

\* The alternatives of r'(W|WINTER|F|FALL|S|SUMMER)', in the order written.
SeasonAlternatives ==
    <<<<"W">>,
      <<"W", "I", "N", "T", "E", "R">>,
      <<"F">>,
      <<"F", "A", "L", "L">>,
      <<"S">>,
      <<"S", "U", "M", "M", "E", "R">>>>

MatchesAt(s, i, alt) == i + Len(alt) - 1 <= Len(s) /\ SubSeq(s, i, i + Len(alt) - 1) = alt

\* re.search(r'(W|WINTER|F|FALL|S|SUMMER)', s): group(1) of the leftmost
\* match, the first alternative that matches there; <<>> stands for no match.
search_season(s) ==
    LET starts == {i \in 1..Len(s) :
                      \E k \in 1..Len(SeasonAlternatives) : MatchesAt(s, i, SeasonAlternatives[k])}
    IN IF starts = {} THEN <<>>
       ELSE LET i == CHOOSE a \in starts : \A b \in starts : a <= b
                k == CHOOSE a \in 1..Len(SeasonAlternatives) :
                        /\ MatchesAt(s, i, SeasonAlternatives[a])
                        /\ \A b \in 1..(a - 1) : ~MatchesAt(s, i, SeasonAlternatives[b])
            IN SeasonAlternatives[k]

\* One filter of the loop of _batch_matches against the upper-cased batch.
filter_matches(batch_upper, filt) ==
    LET filt_upper == strip(upper(filt))
        year_match == search_year(batch_upper)
        season_match == search_season(batch_upper)
        filt_year == search_year(filt_upper)
        filt_season == search_season(filt_upper)
    IN \/ In(filt_upper, batch_upper)
       \/ In(batch_upper, filt_upper)
       \/ /\ year_match # <<>> /\ season_match # <<>>
          /\ filt_year # <<>> /\ filt_season # <<>>
          /\ LastTwo(year_match) = LastTwo(filt_year)
          /\ season_match[1] = filt_season[1]

\* _batch_matches(batch, filters) for a str batch.
batch_matches(batch, filters) ==
    IF batch = <<>> THEN FALSE
    ELSE LET batch_upper == strip(upper(batch))
         IN \E k \in 1..Len(filters) : filter_matches(batch_upper, filters[k])

\* The batch texts the model feeds, each with the batch it denotes.  The
\* pill texts are the ones extract_metadata accepts
\* ((Summer|Winter|Fall|Spring)\s+20\d{2}); the short ones match [SWF]\d{2}.
BatchTexts ==
    { [text |-> <<"W", "2", "5">>, season |-> "Winter", year |-> 2025],
      [text |-> <<"W", "i", "n", "t", "e", "r", " ", "2", "0", "2", "5">>, season |-> "Winter", year |-> 2025],
      [text |-> <<"S", "2", "5">>, season |-> "Summer", year |-> 2025],
      [text |-> <<"S", "u", "m", "m", "e", "r", " ", "2", "0", "2", "5">>, season |-> "Summer", year |-> 2025],
      [text |-> <<"S", "p", "r", "i", "n", "g", " ", "2", "0", "2", "5">>, season |-> "Spring", year |-> 2025],
      [text |-> <<"F", "2", "4">>, season |-> "Fall", year |-> 2024],
      [text |-> <<"F", "a", "l", "l", " ", "2", "0", "2", "4">>, season |-> "Fall", year |-> 2024],
      [text |-> <<"W", "i", "n", "t", "e", "r", " ", "2", "0", "2", "4">>, season |-> "Winter", year |-> 2024] }

\* The filters the model feeds, each with the batch it denotes.
FilterTexts ==
    { [text |-> <<"W", "2", "5">>, season |-> "Winter", year |-> 2025],
      [text |-> <<"S", "2", "5">>, season |-> "Summer", year |-> 2025],
      [text |-> <<"F", "2", "4">>, season |-> "Fall", year |-> 2024],
      [text |-> <<"w", "i", "n", "t", "e", "r", " ", "2", "0", "2", "5">>, season |-> "Winter", year |-> 2025] }

\* company['batch']: '' (no batch found), a str, or a value of another type
\* (the embedded JSON is passed on as it is by _parse_company_list).
BatchValues ==
    { [kind |-> "str", text |-> b.text] : b \in BatchTexts }
    \cup { [kind |-> "str", text |-> <<>>], [kind |-> "other", text |-> <<>>] }

\* What a text of the model denotes.
Denoted(texts, t) == LET e == CHOOSE x \in texts : x.text = t IN <<e.season, e.year>>

\* self.session.get / raise_for_status raised, and the companies found.
FC_Fetch ==
    /\ fc_pc = "fetch"
    /\ \/ /\ fc_pc' = "filter"
          /\ UNCHANGED <<fc_companies, fc_returned, fc_except>>
       \/ /\ fc_pc' = "returned"
          /\ fc_except' = TRUE
          /\ fc_companies' = <<>>
          /\ fc_returned' = <<>>
    /\ UNCHANGED batch_filter
    /\ UNCHANGED notFetch

\* Lines 146-155: the list comprehension over companies; batch.upper() of a
\* value that is no str raises, and the except branch returns `companies`,
\* still bound to the unfiltered list.
FC_Filter ==
    /\ fc_pc = "filter"
    /\ IF batch_filter = <<>>
       THEN fc_returned' = fc_companies /\ UNCHANGED fc_except
       ELSE IF \E i \in 1..Len(fc_companies) : fc_companies[i].kind = "other"
            THEN fc_returned' = fc_companies /\ fc_except' = TRUE
            ELSE /\ fc_returned' =
                      Where(fc_companies,
                            [i \in 1..Len(fc_companies) |->
                                batch_matches(fc_companies[i].text, batch_filter)])
                 /\ UNCHANGED fc_except
    /\ fc_pc' = "returned"
    /\ UNCHANGED <<fc_companies, batch_filter>>
    /\ UNCHANGED notFetch

FetchOff ==
    /\ fc_pc = "off" /\ fc_companies = <<>> /\ batch_filter = <<>>
    /\ fc_returned = <<>> /\ fc_except = FALSE

FetchInit ==
    /\ fc_pc = "fetch"
    /\ fc_companies \in SeqsUpTo(BatchValues, MaxFetched)
    /\ batch_filter \in SeqsUpTo({f.text : f \in FilterTexts}, MaxFilters)
    /\ fc_returned = <<>>
    /\ fc_except = FALSE

\* C15: with a batch_filter, fetch_companies returns only companies whose
\* batch denotes the same season and year as one of the filters, in the
\* exact or the abbreviated form; a company with an empty batch or with a
\* different season or year is dropped.
C15_OnlyFilteredBatches ==
    (fc_pc = "returned" /\ batch_filter # <<>>) =>
        \A i \in 1..Len(fc_returned) :
            /\ fc_returned[i].kind = "str"
            /\ fc_returned[i].text # <<>>
            /\ \E k \in 1..Len(batch_filter) :
                  Denoted(BatchTexts, fc_returned[i].text)
                      = Denoted(FilterTexts, batch_filter[k])

\* ========================================================================
\* scripts/python/scrapers/yc_scraper.py : YCStartupScraper.run
\* ========================================================================

\* One listing-level company as fetch_companies hands it to run: the keys
\* run and score_company read.  detail_url is '' (a navigation block), the
\* directory root, or a company page; description is its stripped length;
\* existing tells whether name.lower() is among the existing names.
Listing(detail_url, description, batch, website, logo, existing) ==
    [detail_url |-> detail_url, description |-> description, batch |-> batch,
     website |-> website, logo |-> logo, existing |-> existing,
     video |-> FALSE, github |-> FALSE, founders |-> FALSE,
     team_size |-> [kind |-> "missing", n |-> 0], score |-> 0]

ListedCompanies ==
    { Listing("", 0, FALSE, FALSE, FALSE, FALSE),
      Listing("root", 300, TRUE, TRUE, TRUE, FALSE),
      Listing("page", 0, FALSE, FALSE, FALSE, FALSE),
      Listing("page", 9, TRUE, FALSE, FALSE, FALSE),
      Listing("page", 300, TRUE, TRUE, TRUE, FALSE),
      Listing("page", 300, TRUE, FALSE, FALSE, TRUE) }

\* Lines 736-747: navigation blocks and blocks without a descriptive signal
\* are skipped.
passes_filter(c) ==
    /\ c.detail_url # "" /\ c.detail_url # "root"
    /\ ~((c.description = 0 \/ c.description < 10) /\ ~c.batch)

\* What _extract_detail_page returns: the dict of empty strings it starts
\* from (the request or the parsing failed), or the fields of the page.
DetailOutcomes ==
    { [website |-> FALSE, github |-> FALSE, founders |-> FALSE,
       team_size |-> [kind |-> "missing", n |-> 0]],
      [website |-> TRUE, github |-> TRUE, founders |-> TRUE,
       team_size |-> [kind |-> "int", n |-> 4]] }

\* Lines 766-768: a truthy detail value fills a key the company lacks.
enriched(c, detail) ==
    [c EXCEPT !.website = c.website \/ detail.website,
              !.github = c.github \/ detail.github,
              !.founders = c.founders \/ detail.founders,
              !.team_size = IF c.team_size.kind = "missing"
                            THEN detail.team_size ELSE c.team_size]

\* s[:stop] of a Python list
SliceTo(s, stop) ==
    IF stop >= 0 THEN SubSeq(s, 1, Min(stop, Len(s)))
    ELSE SubSeq(s, 1, IF Len(s) + stop > 0 THEN Len(s) + stop ELSE 0)

\* A plausible slip: reverse=True is left out of the sort.
sort_key_Ascending(c) == <<c.score>>

\* scored_companies.sort(key=lambda x: x['score'], reverse=True): the place
\* of a company in the ranking; list.sort is stable, also when reversed.
sort_key(c) == <<0 - c.score>>

\* Lines 723-754: fetch, exclude the existing names, drop the invalid blocks.
RUN_Fetch ==
    /\ run_pc = "fetch"
    /\ LET after_exclude ==
               IF exclude_existing
               THEN Where(run_companies,
                          [i \in 1..Len(run_companies) |-> ~run_companies[i].existing])
               ELSE run_companies
           filtered ==
               Where(after_exclude,
                     [i \in 1..Len(after_exclude) |-> passes_filter(after_exclude[i])])
       IN /\ run_companies' = filtered
          /\ run_pc' = IF filtered = <<>> THEN "returned" ELSE "enrich"
    /\ UNCHANGED <<exclude_existing, max_results, run_results>>
    /\ UNCHANGED notRun

\* Lines 756-770: every company has a detail_url here; each detail page
\* fills what the listing left empty.
RUN_Enrich ==
    /\ run_pc = "enrich"
    /\ \E detail \in [1..Len(run_companies) -> DetailOutcomes] :
          run_companies' =
              [i \in 1..Len(run_companies) |-> enriched(run_companies[i], detail[i])]
    /\ run_pc' = "rank"
    /\ UNCHANGED <<exclude_existing, max_results, run_results>>
    /\ UNCHANGED notRun

\* Lines 772-791: score, sort by score, limit, return.
RUN_Rank ==
    /\ run_pc = "rank"
    /\ LET scored_companies ==
               [i \in 1..Len(run_companies) |->
                   [run_companies[i] EXCEPT !.score = score_company(run_companies[i])]]
           ranked ==
               StableSort(scored_companies,
                          [i \in 1..Len(scored_companies) |-> sort_key(scored_companies[i])])
       IN /\ run_companies' = ranked
          /\ run_results' = SliceTo(ranked, max_results)
    /\ run_pc' = "returned"
    /\ UNCHANGED <<exclude_existing, max_results>>
    /\ UNCHANGED notRun

RunOff ==
    /\ run_pc = "off" /\ run_companies = <<>> /\ exclude_existing = FALSE
    /\ max_results = 0 /\ run_results = <<>>

RunInit ==
    /\ run_pc = "fetch"
    /\ run_companies \in SeqsUpTo(ListedCompanies, MaxListed)
    /\ exclude_existing \in BOOLEAN
    /\ max_results \in -1..MaxResults
    /\ run_results = <<>>

\* The companies that passed the filters and are not among the returned:
\* run_companies is the ranking, run_results its head.
LeftOut == { i \in 1..Len(run_companies) : i > Len(run_results) }

SortInputs == {"hot", "NEW", "top", "best"}

\* sort.lower()
sort_lower(sort) == IF sort = "NEW" THEN "new" ELSE sort

sort_accepted(sort) == sort_lower(sort) \in {"hot", "new", "top"}

\* The delay argument, by its sign: time.sleep rejects a negative one.
DelayInputs == {-1, 0, 1}

\* The elements of data['data']['children']: a dict with a 'data' key, a
\* dict without one, and an element that is no dict.
Children == {"post", "no_data", "not_a_dict"}

\* The body of a response: no JSON at all, JSON of another shape than a
\* listing (a list, a null 'data' or 'children'), or a listing.
Bodies ==
    { [kind |-> "invalid_json", children |-> <<>>],
      [kind |-> "other_json", children |-> <<>>] }
    \cup { [kind |-> "listing", children |-> ch] : ch \in SeqsUpTo(Children, MaxChildren) }

StatusCodes == {200, 404, 429, 500}

\* What requests.get does: it raises a RequestException, or it returns a
\* response with a status code and a body.
Responses ==
    { [raised |-> TRUE, status_code |-> 0, body |-> [kind |-> "invalid_json", children |-> <<>>]] }
    \cup { [raised |-> FALSE, status_code |-> s, body |-> b] : s \in StatusCodes, b \in Bodies }

NoResponse == [raised |-> FALSE, status_code |-> 0, body |-> [kind |-> "invalid_json", children |-> <<>>]]

\* How a call ended: "returned" with the posts, or the exception raised.
Pending == [kind |-> "pending", posts |-> <<>>]
Raised(exc) == [kind |-> exc, posts |-> <<>>]

\* A plausible slip: only server errors are retried.
needs_retry_ServerErrorsOnly(status_code) == status_code >= 500

\* resp.status_code != 200
needs_retry(status_code) == status_code # 200

\* [c.get("data", {}) for c in children if isinstance(c, dict)]
posts_of(children) ==
    LET dicts == Where(children, [i \in 1..Len(children) |-> children[i] # "not_a_dict"])
    IN [i \in 1..Len(dicts) |-> IF dicts[i] = "post" THEN "data" ELSE "{}"]

\* Lines 52-53: sort = sort.lower(); assert sort in {...}
FP_Assert ==
    /\ fp_pc = "assert"
    /\ IF sort_accepted(fp_sort)
       THEN fp_pc' = "request" /\ UNCHANGED fp_outcome
       ELSE fp_pc' = "done" /\ fp_outcome' = Raised("AssertionError")
    /\ UNCHANGED <<fp_sort, fp_delay, fp_requests, fp_statuses, fp_resp>>
    /\ UNCHANGED notReddit

\* Lines 60-63: the first request, and time.sleep(delay) after a response
\* that is not 200.
FP_Request ==
    /\ fp_pc = "request"
    /\ \E resp \in Responses :
          /\ fp_requests' = fp_requests + 1
          /\ fp_resp' = resp
          /\ IF resp.raised
             THEN /\ fp_pc' = "done"
                  /\ fp_outcome' = Raised("RuntimeError")
                  /\ UNCHANGED fp_statuses
             ELSE /\ fp_statuses' = Append(fp_statuses, resp.status_code)
                  /\ IF needs_retry(resp.status_code)
                     THEN IF fp_delay < 0
                          THEN fp_pc' = "done" /\ fp_outcome' = Raised("ValueError")
                          ELSE fp_pc' = "retry" /\ UNCHANGED fp_outcome
                     ELSE fp_pc' = "json" /\ UNCHANGED fp_outcome
    /\ UNCHANGED <<fp_sort, fp_delay>>
    /\ UNCHANGED notReddit

\* Lines 64-66: the second request.
FP_Retry ==
    /\ fp_pc = "retry"
    /\ \E resp \in Responses :
          /\ fp_requests' = fp_requests + 1
          /\ fp_resp' = resp
          /\ IF resp.raised
             THEN /\ fp_pc' = "done"
                  /\ fp_outcome' = Raised("RuntimeError")
                  /\ UNCHANGED fp_statuses
             ELSE /\ fp_statuses' = Append(fp_statuses, resp.status_code)
                  /\ IF needs_retry(resp.status_code)
                     THEN fp_pc' = "done" /\ fp_outcome' = Raised("RuntimeError")
                     ELSE fp_pc' = "json" /\ UNCHANGED fp_outcome
    /\ UNCHANGED <<fp_sort, fp_delay>>
    /\ UNCHANGED notReddit

\* Lines 67-73: resp.json() raises a JSONDecodeError, turned into a
\* RuntimeError by one of the two handlers; .get on JSON that is no
\* listing raises an AttributeError or TypeError no handler catches.
FP_Json ==
    /\ fp_pc = "json"
    /\ fp_outcome' =
          CASE fp_resp.body.kind = "invalid_json" -> Raised("RuntimeError")
            [] fp_resp.body.kind = "other_json" -> Raised("AttributeError")
            [] OTHER -> [kind |-> "returned", posts |-> posts_of(fp_resp.body.children)]
    /\ fp_pc' = "done"
    /\ UNCHANGED <<fp_sort, fp_delay, fp_requests, fp_statuses, fp_resp>>
    /\ UNCHANGED notReddit

RedditOff ==
    /\ fp_pc = "off" /\ fp_sort = "hot" /\ fp_delay = 0 /\ fp_requests = 0
    /\ fp_statuses = <<>> /\ fp_resp = NoResponse /\ fp_outcome = Pending

RedditInit ==
    /\ fp_pc = "assert"
    /\ fp_sort \in SortInputs
    /\ fp_delay \in DelayInputs
    /\ fp_requests = 0
    /\ fp_statuses = <<>>
    /\ fp_resp = NoResponse
    /\ fp_outcome = Pending

\* C16 as stated: on a non-200 response fetch_posts retries the request
\* exactly once after the delay: it issues at most two requests per call,
\* returns the posts if either response has status 200, and raises
\* RuntimeError if both responses are non-200.
C16_RetryOnceThenPosts ==
    /\ fp_requests <= 2
    /\ fp_pc = "done" =>
          /\ (fp_statuses # <<>> /\ fp_statuses[1] # 200) => fp_requests = 2
          /\ (\E i \in 1..Len(fp_statuses) : fp_statuses[i] = 200) =>
                fp_outcome.kind = "returned"
          /\ (Len(fp_statuses) = 2 /\ \A i \in 1..2 : fp_statuses[i] # 200) =>
                fp_outcome.kind = "RuntimeError"

\* C16, amended: with a delay that is not negative, a non-200 response to
\* the first request is followed by exactly one more request, and no call
\* issues more than two.  A response with status 200 ends the requests:
\* its posts are returned when its body is a JSON listing, a body that is
\* no JSON raises RuntimeError, and JSON of another shape raises an
\* exception that is not a RuntimeError.  Two non-200 responses, or a
\* request that fails, raise RuntimeError.
C16_RetryOnce ==
    /\ fp_requests <= 2
    /\ Len(fp_statuses) <= fp_requests
    /\ fp_requests = 2 => (fp_statuses # <<>> /\ fp_statuses[1] # 200)
    /\ fp_pc = "done" =>
          /\ (fp_statuses # <<>> /\ fp_statuses[1] # 200 /\ fp_delay >= 0) =>
                fp_requests = 2
          /\ (fp_statuses # <<>> /\ fp_statuses[Len(fp_statuses)] = 200) =>
                /\ fp_resp.body.kind = "listing" =>
                      fp_outcome = [kind |-> "returned",
                                    posts |-> posts_of(fp_resp.body.children)]
                /\ fp_resp.body.kind = "invalid_json" => fp_outcome.kind = "RuntimeError"
                /\ fp_resp.body.kind = "other_json" =>
                      fp_outcome.kind \notin {"returned", "RuntimeError"}
          /\ (Len(fp_statuses) = 2 /\ \A i \in 1..2 : fp_statuses[i] # 200) =>
                fp_outcome.kind = "RuntimeError"
          /\ (fp_requests > Len(fp_statuses)) => fp_outcome.kind = "RuntimeError"
          /\ fp_outcome.kind = "returned" =>
                \E i \in 1..Len(fp_statuses) : fp_statuses[i] = 200

\* The first response was a 429, the retry got a 200 with a listing of two
\* children, and the call returned the post of the one that is a dict.
C16_Witness ==
    /\ fp_pc = "done"
    /\ fp_statuses = <<429, 200>>
    /\ fp_requests = 2
    /\ fp_resp.body.children = <<"not_a_dict", "post">>
    /\ fp_outcome = [kind |-> "returned", posts |-> <<"data">>]

\* ========================================================================
\* influencer_analysis/brand_network_crawler.py : crawl_brand_network
\* ========================================================================

\* The Instagram usernames of the model.
Usernames == {"nike", "puma"}

\* What the captions and tags of a profile's posts can mention: usernames,
\* and a word extract_mentions_from_posts filters out ('you' is in its
\* exclude set).
RawMentions == Usernames \cup {"you"}

exclude == {"you"}

MentionLen(m) == IF m = "you" THEN 3 ELSE 4

\* Line 157: {m for m in mentions if m.lower() not in exclude and len(m) > 2}
filter_mentions(mentions) == { m \in mentions : m \notin exclude /\ MentionLen(m) > 2 }

\* The follower counts a found profile can have, around the thresholds.
FollowerCounts == {9, 1000}

Thresholds == {10, 1000}

\* get_brand_profile(username): the info of the profile, or, when the
\* lookup raises, the info with profile_found False and 0 followers.
BrandProfiles(username) ==
    { [brand_username |-> username, brand_followers |-> 0, profile_found |-> FALSE] }
    \cup { [brand_username |-> username, brand_followers |-> f, profile_found |-> TRUE] :
              f \in FollowerCounts }

\* extract_mentions_from_posts: the filtered mentions, or, when the scan
\* raises before line 157, the mentions collected so far, unfiltered.
MentionSets ==
    LET raw == { s \in SUBSET RawMentions : Cardinality(s) <= MaxMentions }
    IN raw \cup { filter_mentions(s) : s \in raw }

\* The orders in which `for mentioned in mentions` can visit a set.
Orders(S) ==
    { s \in [1..Cardinality(S) -> S] : \A x \in S : \E i \in 1..Cardinality(S) : s[i] = x }

\* A plausible slip: the comparison with the threshold is turned around.
below_threshold_Reversed(followers, threshold) == threshold < followers

\* Line 208: followers < min_followers_threshold
below_threshold(followers, threshold) == followers < threshold

\* Lines 229-239, for the mentions in the order visited: the connections
\* appended and the entries added to the queue.
Connections(current_brand, depth, order) ==
    [i \in 1..Len(order) |->
        [source_brand |-> current_brand, mentioned_brand |-> order[i], depth |-> depth]]

Queued(order, depth, crawled_now, maxd) ==
    LET hit == Where(order, [i \in 1..Len(order) |->
                                order[i] \notin crawled_now /\ depth < maxd])
    IN [i \in 1..Len(hit) |-> <<hit[i], depth + 1>>]

\* One iteration of `while to_crawl` (lines 187-244).
BN_Iter ==
    /\ bn_pc = "while"
    /\ to_crawl # <<>>
    /\ LET current_brand == to_crawl[1][1]
           depth == to_crawl[1][2]
           queue == Tail(to_crawl)
       IN IF current_brand \in crawled \/ depth > max_depth
          THEN /\ to_crawl' = queue
               /\ UNCHANGED <<crawled, discovered_brands, brand_connections, bn_analysed>>
          ELSE \E profile_info \in BrandProfiles(current_brand) :
                  IF \/ ~profile_info.profile_found
                     \/ below_threshold(profile_info.brand_followers, min_followers_threshold)
                  THEN /\ crawled' = crawled \cup {current_brand}
                       /\ to_crawl' = queue
                       /\ bn_analysed' = bn_analysed \cup
                              { [info |-> profile_info, depth |-> depth, scanned |-> FALSE] }
                       /\ UNCHANGED <<discovered_brands, brand_connections>>
                  ELSE \E mentions \in MentionSets : \E order \in Orders(mentions) :
                       /\ discovered_brands' =
                              [u \in DOMAIN discovered_brands \cup {current_brand} |->
                                  IF u = current_brand THEN profile_info
                                  ELSE discovered_brands[u]]
                       /\ crawled' = crawled \cup {current_brand}
                       /\ brand_connections' =
                              brand_connections \o Connections(current_brand, depth, order)
                       /\ to_crawl' = queue \o Queued(order, depth, crawled', max_depth)
                       /\ bn_analysed' = bn_analysed \cup
                              { [info |-> profile_info, depth |-> depth, scanned |-> TRUE] }
    /\ bn_pc' = "while"
    /\ UNCHANGED <<seed_brands, max_depth, min_followers_threshold>>
    /\ UNCHANGED notBrand

\* Lines 246-255: the queue is empty, the crawl returns.
BN_Return ==
    /\ bn_pc = "while"
    /\ to_crawl = <<>>
    /\ bn_pc' = "returned"
    /\ UNCHANGED <<seed_brands, max_depth, min_followers_threshold, to_crawl, crawled,
                   discovered_brands, brand_connections, bn_analysed>>
    /\ UNCHANGED notBrand

BrandOff ==
    /\ bn_pc = "off" /\ seed_brands = <<>> /\ max_depth = 0
    /\ min_followers_threshold = 0 /\ to_crawl = <<>> /\ crawled = {}
    /\ discovered_brands = <<>> /\ brand_connections = <<>> /\ bn_analysed = {}

\* A new crawler (discovered_brands = {}, brand_connections = []) at line
\* 184 of a call.
BrandInit ==
    /\ bn_pc = "while"
    /\ seed_brands \in SeqsUpTo(Usernames, MaxSeeds)
    /\ max_depth \in -1..MaxDepth
    /\ min_followers_threshold \in Thresholds
    /\ to_crawl = [i \in 1..Len(seed_brands) |-> <<seed_brands[i], 0>>]
    /\ crawled = {}
    /\ discovered_brands = <<>>
    /\ brand_connections = <<>>
    /\ bn_analysed = {}

\* C17: every brand stored in discovered_brands was analysed at a depth of
\* at most max_depth and has at least min_followers_threshold followers; a
\* profile that is not found or is below the threshold is never stored and
\* never has its posts scanned for mentions.
C17_StoredBrandsQualify ==
    /\ \A u \in DOMAIN discovered_brands :
          /\ discovered_brands[u].profile_found
          /\ discovered_brands[u].brand_followers >= min_followers_threshold
          /\ \E a \in bn_analysed :
                /\ a.info = discovered_brands[u]
                /\ a.depth <= max_depth
    /\ \A a \in bn_analysed :
          /\ a.depth <= max_depth
          /\ (~a.info.profile_found \/ a.info.brand_followers < min_followers_threshold) =>
                /\ ~a.scanned
                /\ a.info.brand_username \notin DOMAIN discovered_brands
                /\ \A i \in 1..Len(brand_connections) :
                      brand_connections[i].source_brand # a.info.brand_username
          /\ \A b \in bn_analysed : a.info.brand_username = b.info.brand_username => a = b

\* A crawl that stored a brand found through a mention at depth max_depth
\* and skipped another mentioned profile, not found or below the threshold.
C17_Witness ==
    /\ bn_pc = "returned"
    /\ max_depth = 1
    /\ \E a \in bn_analysed :
          a.depth = 1 /\ a.scanned /\ a.info.brand_username \in DOMAIN discovered_brands
    /\ \E a \in bn_analysed :
          /\ a.depth = 1 /\ ~a.scanned
          /\ (~a.info.profile_found \/ a.info.brand_followers < min_followers_threshold)

\* ========================================================================
\* Specifications: one per script, the other scripts' variables at rest
\* ========================================================================

WebNext == AW_Iter \/ AW_Return

InitWeb == WebInit /\ ShopOff /\ ScoreOff /\ PoolOff /\ JdOff /\ MalOff
    /\ LmfOff /\ MainOff /\ SheetOff /\ FetchOff /\ RunOff /\ RedditOff
    /\ BrandOff

SpecWeb == InitWeb /\ [][WebNext]_vars

ShopNext == SL_Score

InitShopify == ShopInit /\ WebOff /\ ScoreOff /\ PoolOff /\ JdOff /\ MalOff
    /\ LmfOff /\ MainOff /\ SheetOff /\ FetchOff /\ RunOff /\ RedditOff
    /\ BrandOff

SpecShopify == InitShopify /\ [][ShopNext]_vars

ScoreNext == SC_Score \/ SC_Priority

InitYCScore == ScoreInit /\ WebOff /\ ShopOff /\ PoolOff /\ JdOff /\ MalOff
    /\ LmfOff /\ MainOff /\ SheetOff /\ FetchOff /\ RunOff /\ RedditOff
    /\ BrandOff

SpecYCScore == InitYCScore /\ [][ScoreNext]_vars

PoolNext == YC_Submit \/ YC_WorkerStart \/ YC_WorkerFinish \/ YC_Merge \/ YC_PoolExit

InitYCPool == PoolInit /\ WebOff /\ ShopOff /\ ScoreOff /\ JdOff /\ MalOff
    /\ LmfOff /\ MainOff /\ SheetOff /\ FetchOff /\ RunOff /\ RedditOff
    /\ BrandOff

SpecYCPool == InitYCPool /\ [][PoolNext]_vars

JdNext == JD_Fetch \/ JD_While \/ JD_Item \/ JD_After

InitJD == JdInit /\ WebOff /\ ShopOff /\ ScoreOff /\ PoolOff /\ MalOff
    /\ LmfOff /\ MainOff /\ SheetOff /\ FetchOff /\ RunOff /\ RedditOff
    /\ BrandOff

SpecJD == InitJD /\ [][JdNext]_vars

\* run is one sequential thread: it keeps taking its next step until it returns.
SpecJDFair == SpecJD /\ WF_vars(JdNext)

MalNext == MAL_Merge

InitMergeAll == MalInit /\ WebOff /\ ShopOff /\ ScoreOff /\ PoolOff /\ JdOff
    /\ LmfOff /\ MainOff /\ SheetOff /\ FetchOff /\ RunOff /\ RedditOff
    /\ BrandOff

SpecMergeAll == InitMergeAll /\ [][MalNext]_vars

LmfNext == LMF_Concat \/ LMF_DedupSite \/ LMF_DedupPhone \/ LMF_DedupNameCity

InitMergeDatasets == LmfInit /\ WebOff /\ ShopOff /\ ScoreOff /\ PoolOff
    /\ JdOff /\ MalOff /\ MainOff /\ SheetOff /\ FetchOff /\ RunOff
    /\ RedditOff /\ BrandOff

SpecMergeDatasets == InitMergeDatasets /\ [][LmfNext]_vars

SheetNext == WL_Authenticate \/ WL_GetSheet \/ WL_Headers \/ WL_Append

InitSheets == SheetInit /\ WebOff /\ ShopOff /\ ScoreOff /\ PoolOff /\ JdOff
    /\ MalOff /\ LmfOff /\ MainOff /\ FetchOff /\ RunOff /\ RedditOff
    /\ BrandOff

SpecSheets == InitSheets /\ [][SheetNext]_vars

MainNext ==
    \/ MAIN_Load \/ AW_Iter \/ AW_Return \/ MAIN_AnalyzeRaised \/ MAIN_Filter
    \/ MAIN_Backup \/ WL_Authenticate \/ WL_GetSheet \/ WL_Headers \/ WL_Append
    \/ MAIN_SheetsReturned \/ MAIN_Report \/ MAIN_Status

InitMain == MainInit /\ WebOff /\ ShopOff /\ ScoreOff /\ PoolOff /\ JdOff
    /\ MalOff /\ LmfOff /\ SheetOff /\ FetchOff /\ RunOff /\ RedditOff
    /\ BrandOff

SpecMain == InitMain /\ [][MainNext]_vars

FetchNext == FC_Fetch \/ FC_Filter

InitYCFetch == FetchInit /\ WebOff /\ ShopOff /\ ScoreOff /\ PoolOff /\ JdOff
    /\ MalOff /\ LmfOff /\ MainOff /\ SheetOff /\ RunOff /\ RedditOff
    /\ BrandOff

SpecYCFetch == InitYCFetch /\ [][FetchNext]_vars

RunNext == RUN_Fetch \/ RUN_Enrich \/ RUN_Rank

InitYCRun == RunInit /\ WebOff /\ ShopOff /\ ScoreOff /\ PoolOff /\ JdOff
    /\ MalOff /\ LmfOff /\ MainOff /\ SheetOff /\ FetchOff /\ RedditOff
    /\ BrandOff

SpecYCRun == InitYCRun /\ [][RunNext]_vars

RedditNext == FP_Assert \/ FP_Request \/ FP_Retry \/ FP_Json

InitReddit == RedditInit /\ WebOff /\ ShopOff /\ ScoreOff /\ PoolOff /\ JdOff
    /\ MalOff /\ LmfOff /\ MainOff /\ SheetOff /\ FetchOff /\ RunOff
    /\ BrandOff

SpecReddit == InitReddit /\ [][RedditNext]_vars

BrandNext == BN_Iter \/ BN_Return

InitBrandNetwork == BrandInit /\ WebOff /\ ShopOff /\ ScoreOff /\ PoolOff
    /\ JdOff /\ MalOff /\ LmfOff /\ MainOff /\ SheetOff /\ FetchOff /\ RunOff
    /\ RedditOff

SpecBrandNetwork == InitBrandNetwork /\ [][BrandNext]_vars

====
